---- MODULE Spec2Model ----
(***************************************************************************)
(* State-machine model of the portfolio solver framework: the scheduler    *)
(* (scheduler.rs), the solver-process manager with its receiver task       *)
(* (solver_manager.rs), the compilation manager (compilation_manager.rs)   *)
(* and the memory enforcer.  The runtime is tokio's current_thread flavour *)
(* (main.rs:33): a task runs until it awaits something that is not ready,  *)
(* so every action below is the code between two such suspension points.   *)
(***************************************************************************)
EXTENDS Integers, Sequences, FiniteSets, TLC

(*************************** bounds of the model ***************************)
MaxId == 2          \* apply is not taken once next_solver_id would pass it
MaxProcs == 2       \* start tasks spawned in one run
MaxEmit == 1        \* parser events produced by all solvers in one run
MaxCompile == 2     \* compilations started per solver name
NumCores == 2       \* cores reported by the OS topology
RecvProcs == 3      \* start tasks in a run of the receiver's specification
RecvEmit == 3       \* parser events in a run of the receiver's specification
SlotProcs == 3      \* start tasks in a run of the slots' specification
ResumeProcs == 4    \* start tasks in a run of the resumes' specification
CompProcs == 3      \* start tasks in a run of the compilations' specification
MaxTime == 4        \* seconds counted by the orchestrator's clock
AiProcs == 3        \* start tasks in a run of the orchestrator's specification
MaxLines == 4       \* raw lines fed to one parser
MaxStarts == 2      \* solver starts prepared in a run of the flatfiles' specification

(************************ values drawn by the inputs ***********************)
None == <<>>                         \* Option::None
Some(x) == <<x>>                     \* Option::Some(x)
Names == {"A", "B"}                  \* solver names
Objs == {7, 8, 10}                   \* objective values solvers report
ObjectiveTypes == {"Satisfy", "Minimize", "Maximize"}
Statuses == {"OptimalSolution", "Unsatisfiable", "Unbounded", "Unknown"}
AllCores == 0 .. (NumCores - 1)
CPU_SETSIZE == 1024                  \* nix CpuSet::count()

SolverInfo(n, c) == [name |-> n, cores |-> c, objective |-> None]
Infos == {SolverInfo("A", 2), SolverInfo("B", 1)}
Portfolios ==
    {<<>>} \cup {<<i>> : i \in Infos} \cup {<<i, j>> : i \in Infos, j \in Infos}

(******************************** state ************************************)
VARIABLES
    objective_type,     \* SolverManager.objective_type
    running_solvers,    \* State.running_solvers   : id -> SolverInfo
    suspended_solvers,  \* State.suspended_solvers : id -> SolverInfo
    next_solver_id,     \* State.next_solver_id
    prev_objective,     \* State.prev_objective
    solver_processes,   \* SolverManager.solver_processes : id -> SolverProcess
    current_solvers,    \* SolverManager.current_solvers
    available_cores,    \* SolverManager.available_cores
    best_objective,     \* SolverManager.best_objective (the shared bound)
    pin_yuck,           \* RunArgs.pin_yuck
    procs,              \* the tasks spawned by start_solver, indexed by pid
    compilations,       \* CompilationManager.compilations : name -> entry
    compTasks,          \* the spawned compilation tasks : <<name, gen>> -> state
    chan,               \* the mpsc channel tx/rx of Msg
    objective,          \* the receiver's local `objective`
    stdout,             \* what the receiver has printed
    program_cancelled,  \* program_cancellation_token
    receiver_done,      \* the receiver has left its loop
    emitted,            \* parser events produced so far
    orch,               \* the orchestrator: sunny, start_with_ai and the exit of run
    locks,              \* who holds which lock, and where each task is in its locking
    parser,             \* solver_output::Parser of one reader, with what it was fed
    flat                \* the flatfile each prepared solver start was given

vars == <<objective_type, running_solvers, suspended_solvers, next_solver_id,
          prev_objective, solver_processes, current_solvers, available_cores,
          best_objective, pin_yuck, procs, compilations, compTasks, chan,
          objective, stdout, program_cancelled, receiver_done, emitted, orch,
          locks, parser, flat>>

schedVars == <<running_solvers, suspended_solvers, next_solver_id, prev_objective>>
recvVars  == <<chan, objective, stdout, receiver_done>>
compVars  == <<compilations, compTasks>>

(****************************** small helpers ******************************)
EmptyMap == [x \in {} |-> None]
Remove(f, S) == [x \in (DOMAIN f) \ S |-> f[x]]
Put(f, k, v) == [x \in (DOMAIN f) \cup {k} |-> IF x = k THEN v ELSE f[x]]
Range(s) == {s[i] : i \in DOMAIN s}
Pids == DOMAIN procs

RECURSIVE SeqOfSet(_)
SeqOfSet(S) == IF S = {} THEN {<<>>}
               ELSE UNION {{<<x>> \o t : t \in SeqOfSet(S \ {x})} : x \in S}

RECURSIVE SumCores(_, _)
SumCores(f, S) == IF S = {} THEN 0
                  ELSE LET x == CHOOSE y \in S : TRUE
                       IN f[x].cores + SumCores(f, S \ {x})

(************************* model_parser.rs / dzn.rs ************************)
is_better_wrong(t, old, new) ==
    IF old = None THEN TRUE
    ELSE IF t = "Maximize" THEN old[1] <= new
    ELSE IF t = "Minimize" THEN old[1] >= new
    ELSE TRUE

is_better_flipped(t, old, new) ==
    IF old = None THEN TRUE
    ELSE IF t = "Maximize" THEN old[1] > new
    ELSE IF t = "Minimize" THEN old[1] < new
    ELSE TRUE

is_better(t, old, new) ==
    IF old = None THEN TRUE
    ELSE IF t = "Maximize" THEN old[1] < new
    ELSE IF t = "Minimize" THEN old[1] > new
    ELSE TRUE

to_dzn_string_unknown(status) == "=====UNKNOWN====="

to_dzn_string(status) ==
    CASE status = "OptimalSolution" -> "=========="
      [] status = "Unsatisfiable"   -> "=====UNSATISFIABLE====="
      [] status = "Unbounded"       -> "=====UNBOUNDED====="
      [] status = "Unknown"         -> "=====UNKNOWN====="

(************************ solver_output: the line parser ********************)
\* The Parser the stdout reader feeds (solver_manager.rs:500-528 calls
\* solver_output::Parser::new(objective_type) and parser.next_line(&line)).
\* A raw line is its text up to the first integer, that integer, and the text
\* after it; int is None for a line without one.
RawLine(head, int, tail) == [head |-> head, int |-> int, tail |-> tail]
SOLUTION_TERMINATOR == "----------"
OBJECTIVE_PREFIX == "_objective = "
TerminatorLine == RawLine(SOLUTION_TERMINATOR, None, "")
ObjectiveLine(v, tail) == RawLine(OBJECTIVE_PREFIX, Some(v), tail)
ContentLine(text) == RawLine(text, None, "")
DznStatusLine(st) == RawLine(to_dzn_string(st), None, "")
ParserLines ==
    {TerminatorLine, ObjectiveLine(7, ";"), ObjectiveLine(-8, ""),
     ContentLine("x = 1;"), ContentLine("y = 2;"), DznStatusLine("Unknown")}

NoEvent == [kind |-> "None", block |-> <<>>, objective |-> None, status |-> ""]
SolutionEvent(block, o) ==
    [kind |-> "Solution", block |-> block, objective |-> o, status |-> ""]
StatusEvent(st) ==
    [kind |-> "Status", block |-> <<>>, objective |-> None, status |-> st]
MissingObjective ==
    [kind |-> "MissingObjective", block |-> <<>>, objective |-> None,
     status |-> ""]

\* Parser::new: nothing pending; fed and outs are the lines given to
\* next_line so far and what each call returned.
ParserNew ==
    [pending_block |-> <<>>, pending_objective |-> None,
     fed |-> <<>>, outs |-> <<>>]

IsStatusLine(line) ==
    /\ line.int = None
    /\ \E st \in Statuses : to_dzn_string(st) = line.head
IsObjectiveLine(t, line) ==
    /\ t # "Satisfy"
    /\ line.head = OBJECTIVE_PREFIX
    /\ line.int # None
    /\ line.tail \in {";", ""}

next_line_first_objective(P, t, line, keep) ==
    IF line = TerminatorLine
    THEN IF t # "Satisfy" /\ P.pending_objective = None
         THEN [pending_block |-> IF keep THEN P.pending_block ELSE <<>>,
               pending_objective |-> None, out |-> MissingObjective]
         ELSE [pending_block |-> <<>>, pending_objective |-> None,
               out |-> SolutionEvent(P.pending_block, P.pending_objective)]
    ELSE IF IsStatusLine(line)
    THEN [pending_block |-> P.pending_block,
          pending_objective |-> P.pending_objective,
          out |-> StatusEvent(CHOOSE st \in Statuses :
                                  to_dzn_string(st) = line.head)]
    ELSE IF IsObjectiveLine(t, line)
    THEN [pending_block |-> P.pending_block,
          pending_objective |-> IF P.pending_objective = None
                                THEN line.int ELSE P.pending_objective,
          out |-> NoEvent]
    ELSE [pending_block |-> Append(P.pending_block, line),
          pending_objective |-> P.pending_objective, out |-> NoEvent]

\* Parser::next_line, by the rules of the parser's description: the
\* terminator emits the pending solution and clears both fields, or fails
\* with MissingObjective when the objective is required and absent; a status
\* line emits its status; an objective line stores its integer; any other
\* line is appended to the block.  Whether the failing terminator clears the
\* block is not fixed by the description: keep chooses.
next_line(P, t, line, keep) ==
    IF line = TerminatorLine
    THEN IF t # "Satisfy" /\ P.pending_objective = None
         THEN [pending_block |-> IF keep THEN P.pending_block ELSE <<>>,
               pending_objective |-> None, out |-> MissingObjective]
         ELSE [pending_block |-> <<>>, pending_objective |-> None,
               out |-> SolutionEvent(P.pending_block, P.pending_objective)]
    ELSE IF IsStatusLine(line)
    THEN [pending_block |-> P.pending_block,
          pending_objective |-> P.pending_objective,
          out |-> StatusEvent(CHOOSE st \in Statuses :
                                  to_dzn_string(st) = line.head)]
    ELSE IF IsObjectiveLine(t, line)
    THEN [pending_block |-> P.pending_block,
          pending_objective |-> line.int, out |-> NoEvent]
    ELSE [pending_block |-> Append(P.pending_block, line),
          pending_objective |-> P.pending_objective, out |-> NoEvent]

(***************************** insert_objective.rs **************************)
\* A flatfile is its text cut at every ';': the statements, of which the
\* model keeps the first word (kw) and the last word (name), and the ';'
\* characters themselves.  White space is not kept: a piece of text that
\* holds nothing else is the empty sequence, as it is after trim().
Stmt(kw, name) == [kw |-> kw, name |-> name, left |-> "", right |-> ""]
Semi == Stmt(";", "")
to_string(o) == CASE o = 7 -> "7" [] o = 8 -> "8" [] o = 10 -> "10" [] o = -8 -> "-8"
\* fn int_le (insert_objective.rs:54-56); its text ends with a ';'
int_le(left, right) ==
    <<[kw |-> "constraint int_le", name |-> "", left |-> left, right |-> right],
      Semi>>

\* what the flattener writes: every item, the solve item too, ends with ';'
FznOfX == <<Stmt("var", "x"), Semi, Stmt("solve", "x"), Semi>>
FznOfY ==
    <<Stmt("var", "y"), Semi, Stmt("constraint", "y"), Semi,
      Stmt("solve", "y"), Semi>>
\* a flatfile written by hand, without the ';' after the solve item
FznUnterminated == <<Stmt("var", "x"), Semi, Stmt("solve", "x")>>
Flatfiles == {FznOfX, FznOfY, FznUnterminated}
IoOutcomes == {"ok", "ReadFznFile", "TempFile"}

\* str::split(';'): the pieces between the ';', the piece after the last ';'
\* included
RECURSIVE split(_)
split(content) ==
    IF content = <<>> THEN << <<>> >>
    ELSE LET rest == split(Tail(content))
         IN IF Head(content) = Semi THEN << <<>> >> \o rest
            ELSE << <<Head(content)>> \o Head(rest) >> \o Tail(rest)

\* [&str]::join(";")
RECURSIVE join(_)
join(statements) ==
    IF Len(statements) = 1 THEN statements[1]
    ELSE statements[1] \o <<Semi>> \o join(Tail(statements))

\* get_objective_constraint (insert_objective.rs:49-61)
get_objective_constraint(t, objective_name, o) ==
    IF t = "Satisfy" THEN [ok |-> FALSE, text |-> <<>>]
    ELSE IF t = "Minimize"
    THEN [ok |-> TRUE, text |-> int_le(objective_name, to_string(o))]
    ELSE [ok |-> TRUE, text |-> int_le(to_string(o), objective_name)]

FznErr(e) == [ok |-> FALSE, error |-> e, content |-> <<>>]

insert_objective_before_solve(content, t, o, io) ==
    IF io = "ReadFznFile" THEN FznErr("ReadFznFile")
    ELSE IF ~\E k \in DOMAIN content : content[k].kw = "solve"
    THEN FznErr("LastStatementNotSolve")
    ELSE LET k == CHOOSE i \in DOMAIN content : content[i].kw = "solve"
             c == get_objective_constraint(t, content[k].name, o)
         IN IF ~c.ok THEN FznErr("GetObjectiveOnSatisfyType")
            ELSE IF io = "TempFile" THEN FznErr("TempFile")
            ELSE [ok |-> TRUE, error |-> "",
                  content |-> SubSeq(content, 1, k - 1) \o c.text
                              \o SubSeq(content, k, Len(content))]

\* insert_objective (insert_objective.rs:9-47): the text is split at ';', the
\* last piece, trimmed, has to start with "solve", the constraint is inserted
\* before it and the pieces are joined with ';'.  io is the outcome of the
\* file system: the read fails, the temp file fails, or both succeed.
insert_objective(content, t, o, io) ==
    IF io = "ReadFznFile" THEN FznErr("ReadFznFile")
    ELSE LET statements == split(content)
             solve_statement == statements[Len(statements)]
         IN IF solve_statement = <<>> \/ solve_statement[1].kw # "solve"
            THEN FznErr("LastStatementNotSolve")
            ELSE LET c == get_objective_constraint(
                              t, solve_statement[Len(solve_statement)].name, o)
                 IN IF ~c.ok THEN FznErr("GetObjectiveOnSatisfyType")
                    ELSE IF io = "TempFile" THEN FznErr("TempFile")
                    ELSE [ok |-> TRUE, error |-> "",
                          content |->
                             join(SubSeq(statements, 1, Len(statements) - 1)
                                  \o <<c.text>>
                                  \o <<solve_statement>>)]

\* prepare_solver_process, solver_manager.rs:294-306: the flatfile the solver
\* command is given
fzn_final(original, t, obj, io) ==
    IF obj # None
    THEN LET r == insert_objective(original, t, obj[1], io)
         IN [original |-> original, objective |-> obj,
             final |-> IF r.ok THEN r.content ELSE original,
             error |-> r.error]
    ELSE [original |-> original, objective |-> obj,
          final |-> original, error |-> ""]

(**************************** process bookkeeping ***************************)
\* A start task (solver_manager.rs:392-486).  os is the state of the spawned
\* solver pipeline: "none" (not spawned), "running", "stopped" (SIGSTOP),
\* "killed" (its SolverProcess record was dropped: SIGTERM, SIGCONT, then the
\* force-kill thread) and "dead".  token is the cancellation token the task
\* was given: "program" (the program token), or the token of the first apply
\* of start_without_ai, "apply" until it is cancelled and "cancelled" then.
NewTask(elem) ==
    [id |-> elem.id, name |-> elem.info.name, cores |-> elem.info.cores,
     phase |-> "new", gen |-> 0, obj |-> None, os |-> "none", alloc |-> {},
     reader |-> "none", local_best |-> None, token |-> "program",
     drop |-> <<>>]

\* impl Drop for SolverProcess (solver_manager.rs:73-82), for a set of pids:
\* the signals of send_signals_to_process_tree in the order of its vector,
\* then the SIGKILLs of recursive_force_kill from the thread spawned after it.
\* drop is the log of the signals the drop of the record has sent.
DropSignals == <<"SIGTERM", "SIGCONT">>

DropRecords(P, pids) ==
    [p \in DOMAIN P |->
        IF p \in pids
        THEN [P[p] EXCEPT !.os = IF @ \in {"running", "stopped"} THEN "killed" ELSE @,
                          !.drop = DropSignals \o <<"SIGKILL">>]
        ELSE P[p]]

\* send_signals_to_process_tree: fails when the process group is gone
SignalOk(P, pid) == P[pid].os \in {"running", "stopped", "killed"}

SendSignal(P, pids, sig) ==
    [p \in DOMAIN P |->
        IF p \in pids /\ sig = "SIGSTOP" /\ P[p].os = "running"
            THEN [P[p] EXCEPT !.os = "stopped"]
        ELSE IF p \in pids /\ sig = "SIGCONT" /\ P[p].os = "stopped"
            THEN [P[p] EXCEPT !.os = "running"]
        ELSE P[p]]

\* send_signals_to_solvers (solver_manager.rs:610-631): the ids that get an Err
SignalErrors(M, P, ids) ==
    {id \in ids : id \notin DOMAIN M \/ ~SignalOk(P, M[id].pid)}

SignalSolvers(M, P, ids, sig) ==
    SendSignal(P, {M[id].pid : id \in ids \cap DOMAIN M}, sig)

\* kill_solver / _stop_solvers (solver_manager.rs:685-704, 788-798)
StopErrors(M, ids) == {id \in ids : id \notin DOMAIN M}
StopMap(M, ids) == Remove(M, ids)
StopProcs(M, P, ids) == DropRecords(P, {M[id].pid : id \in ids \cap DOMAIN M})

\* start_solvers / start_solver up to tokio::spawn (solver_manager.rs:372-392)
StartSolvers(P, elems) == P \o [i \in 1 .. Len(elems) |-> NewTask(elems[i])]

InsertRecord_forget(M, P, id, pid, obj) ==
    [map |-> Put(M, id, [pid |-> pid, best_objective |-> obj]), procs |-> P]

\* map.insert(elem_id, solver_process): an older record under the id is dropped
InsertRecord(M, P, id, pid, obj) ==
    [map |-> Put(M, id, [pid |-> pid, best_objective |-> obj]),
     procs |-> IF id \in DOMAIN M THEN DropRecords(P, {M[id].pid}) ELSE P]

(**************************** CPU pinning (linux) **************************)
Min(S) == CHOOSE x \in S : \A y \in S : x <= y

RECURSIVE pin_loop_leaky(_, _, _)
pin_loop_leaky(n, avail, allocated) ==
    IF n = 0 THEN [ok |-> TRUE, alloc |-> allocated, avail |-> avail]
    ELSE IF avail = {} THEN [ok |-> FALSE, alloc |-> {}, avail |-> avail]
    ELSE pin_loop_leaky(n - 1, avail \ {Min(avail)}, allocated \cup {Min(avail)})

\* pin_yuck_solver_to_cores (solver_manager.rs:834-870): the loop over 0..cores
RECURSIVE pin_loop(_, _, _)
pin_loop(n, avail, allocated) ==
    IF n = 0 THEN [ok |-> TRUE, alloc |-> allocated, avail |-> avail]
    ELSE IF avail = {}
        THEN [ok |-> FALSE, alloc |-> {}, avail |-> avail \cup allocated]
    ELSE LET val == Min(avail) IN
        IF val >= CPU_SETSIZE     \* cpu_set.set(val) fails: val is not put back
        THEN [ok |-> FALSE, alloc |-> {}, avail |-> (avail \ {val}) \cup allocated]
        ELSE pin_loop(n - 1, avail \ {val}, allocated \cup {val})

pin_yuck_solver_to_cores(cores, avail) == pin_loop(cores, avail, {})

(************************* scheduler.rs: pure parts *************************)
is_over_threshold_half(used, total, threshold10) == used * 20 > total * threshold10

is_over_threshold(used, total, threshold10) == used * 10 > total * threshold10

ScheduleElement(id, info) == [id |-> id, info |-> info]
Ids(schedule) == {schedule[i].id : i \in DOMAIN schedule}
RemoveAt_keep(s, i) == s

\* Vec::remove(i) on the list of candidate slots (scheduler.rs:526-527)
RemoveAt(s, i) == SubSeq(s, 1, i - 1) \o SubSeq(s, i + 1, Len(s))
Entries(f, order) == [i \in DOMAIN order |-> ScheduleElement(order[i], f[order[i]])]

FirstMatch_none(solvers, new_info) == Len(solvers) + 1

FirstMatch_any(solvers, new_info) == IF solvers # <<>> THEN 1 ELSE Len(solvers) + 1

\* the while loop of assign_ids: first i with new_info = solvers[i].1, else len+1
FirstMatch(solvers, new_info) ==
    IF \E i \in DOMAIN solvers : solvers[i].info = new_info
    THEN Min({i \in DOMAIN solvers : solvers[i].info = new_info})
    ELSE Len(solvers) + 1

RECURSIVE assign_loop(_, _, _, _)
assign_loop(portfolio, solvers, next, schedule) ==
    IF portfolio = <<>> THEN [schedule |-> schedule, next |-> next]
    ELSE LET new_info == Head(portfolio)
             i == FirstMatch(solvers, new_info)
         IN IF i <= Len(solvers)
            THEN assign_loop(Tail(portfolio), RemoveAt(solvers, i), next,
                             Append(schedule, ScheduleElement(solvers[i].id, new_info)))
            ELSE assign_loop(Tail(portfolio), solvers, next + 1,
                             Append(schedule, ScheduleElement(next, new_info)))

\* assign_ids (scheduler.rs:499-540); solvers = running entries then suspended
\* entries, each group in the iteration order of its HashMap
assign_ids(portfolio, solvers, next) == assign_loop(portfolio, solvers, next, <<>>)

remove_exited_never(f, active) == f

\* remove_exited_solvers (scheduler.rs:295-300)
remove_exited_solvers(f, active) == Remove(f, (DOMAIN f) \ active)

RECURSIVE categorize_loop_restart(_, _, _, _)
categorize_loop_restart(schedule, running, suspended, acc) ==
    IF schedule = <<>> THEN [acc EXCEPT !.to_suspend = running]
    ELSE LET elem == Head(schedule) IN
        IF elem.id \in running
        THEN categorize_loop_restart(Tail(schedule), running \ {elem.id},
                                     suspended, acc)
        ELSE categorize_loop_restart(Tail(schedule), running, suspended,
                                     [acc EXCEPT !.to_start = Append(@, elem)])

RECURSIVE categorize_loop(_, _, _, _)
categorize_loop(schedule, running, suspended, acc) ==
    IF schedule = <<>> THEN [acc EXCEPT !.to_suspend = running]
    ELSE LET elem == Head(schedule) IN
        IF elem.id \in running
        THEN categorize_loop(Tail(schedule), running \ {elem.id}, suspended, acc)
        ELSE IF elem.id \in suspended
        THEN categorize_loop(Tail(schedule), running, suspended \ {elem.id},
                             [acc EXCEPT !.to_resume = Append(@, elem.id)])
        ELSE categorize_loop(Tail(schedule), running, suspended,
                             [acc EXCEPT !.to_start = Append(@, elem)])

\* categorize_schedule (scheduler.rs:342-373) after its remove_exited_solvers
categorize_schedule(schedule, running, suspended) ==
    categorize_loop(schedule, DOMAIN running, DOMAIN suspended,
                    [to_start |-> <<>>, to_resume |-> <<>>, to_suspend |-> {}])

InsertAll_skip(f, elems) == f

RECURSIVE InsertAll(_, _)
InsertAll(f, elems) ==
    IF elems = <<>> THEN f
    ELSE InsertAll(Put(f, Head(elems).id, Head(elems).info), Tail(elems))

\* to_start into running; to_resume from suspended into running
Resumed(running, suspended, ids) ==
    [id \in (DOMAIN running) \cup (ids \cap DOMAIN suspended) |->
        IF id \in ids \cap DOMAIN suspended THEN suspended[id] ELSE running[id]]

Suspended_remove(running, suspended, ids) ==
    [running |-> Remove(running, ids \cap DOMAIN running),
     suspended |-> suspended]

\* to_suspend from running into suspended
Suspended(running, suspended, ids) ==
    [running |-> Remove(running, ids \cap DOMAIN running),
     suspended |-> [id \in (DOMAIN suspended) \cup (ids \cap DOMAIN running) |->
                      IF id \in ids \cap DOMAIN running THEN running[id]
                      ELSE suspended[id]]]

apply_changes_keep_suspended(running, suspended, changes) ==
    Suspended(Resumed(InsertAll(running, changes.to_start), suspended,
                      Range(changes.to_resume)),
              suspended, changes.to_suspend)

\* apply_changes_to_state (scheduler.rs:375-391)
apply_changes_to_state(running, suspended, changes) ==
    Suspended(Resumed(InsertAll(running, changes.to_start), suspended,
                      Range(changes.to_resume)),
              Remove(suspended, Range(changes.to_resume)), changes.to_suspend)

\* the elements apply starts again after a failed resume (scheduler.rs:471-478)
RECURSIVE resume_elements(_, _)
resume_elements(schedule, to_resume) ==
    IF schedule = <<>> THEN <<>>
    ELSE (IF Head(schedule).id \in Range(to_resume) THEN <<Head(schedule)>> ELSE <<>>)
         \o resume_elements(Tail(schedule), to_resume)

(************************ compilation_manager.rs ***************************)
\* compilations[name] is NotStarted (no entry), Started(gen) or Done(result);
\* compTasks[<<name, gen>>] is the task spawned by start_many for that entry:
\* st is "run" until the task has sent its result ("ok", "err", "cancelled"),
\* stopped tells that stop_many cancelled its token.
NoEntry == [st |-> "NotStarted", gen |-> 0]

\* start_many for one name (compilation_manager.rs:55-113)
start_compilations(C, name) ==
    IF C[name].st = "NotStarted"
    THEN [C EXCEPT ![name] = [st |-> "Started", gen |-> C[name].gen + 1]]
    ELSE C

start_tasks_always(C, T, name) ==
    Put(T, <<name, C[name].gen + 1>>, [st |-> "run", stopped |-> FALSE])

start_tasks(C, T, name) ==
    IF C[name].st = "NotStarted"
    THEN Put(T, <<name, C[name].gen + 1>>, [st |-> "run", stopped |-> FALSE])
    ELSE T

\* stop_many (compilation_manager.rs:168-190)
stop_compilations(C, names) ==
    [n \in DOMAIN C |->
        IF n \in names /\ C[n].st = "Started" THEN [C[n] EXCEPT !.st = "NotStarted"]
        ELSE C[n]]

stop_tasks(C, T, names) ==
    [k \in DOMAIN T |->
        IF k[1] \in names /\ C[k[1]].st = "Started" /\ C[k[1]].gen = k[2]
        THEN [T[k] EXCEPT !.stopped = TRUE] ELSE T[k]]

\* stop_all_except(keep): stop_many of every other registered name
stop_all_except_names(C, keep) == {n \in DOMAIN C : n \notin keep}

CompCancelled_waiterless(k) ==
    \/ compTasks[k].stopped
    \/ program_cancelled
    \/ ~\E p \in Pids : procs[p].phase = "wait" /\ <<procs[p].name, procs[p].gen>> = k

\* the token of a compilation task is a child of the manager's (program) token
CompCancelled(k) == compTasks[k].stopped \/ program_cancelled

(********************************** locks ***********************************)
\* State.state (scheduler.rs:162), and the locks of the solver manager:
\* solver_processes, current_solvers, available_cores (tokio Mutex) and
\* best_objective, the global best (tokio RwLock)
Locks == {"state", "solver_processes", "current_solvers", "available_cores",
          "best_objective"}
Tasks == {"apply", "memory_enforcer_loop", "start_solver", "exit_watcher",
          "handle_solver_stdout", "receiver"}

Lock(l) == [op |-> "lock", on |-> l]
Read(l) == [op |-> "read", on |-> l]
Write(l) == [op |-> "write", on |-> l]
Unlock(l) == [op |-> "unlock", on |-> l]
Held(l) == <<Lock(l), Unlock(l)>>      \* a guard taken and dropped at once
Await == [op |-> "await", on |-> "none"]   \* an await on something that is no lock

\* the timer of the restart loop (sunny.rs:83-88), then Scheduler::apply
\* (scheduler.rs:407-496): the state guard lives to the end;
\* get_best_objective (408), get_solver_objectives (420), stop_solvers (435),
\* remove_exited_solvers in categorize_schedule (446), suspend_solvers (460),
\* stop_solvers (465), resume_solvers (469), start_solver (480, 489)
apply_script ==
    <<Await, Lock("state"), Read("best_objective"), Unlock("best_objective")>>
    \o Held("solver_processes") \o Held("solver_processes")
    \o Held("current_solvers")
    \o Held("solver_processes") \o Held("solver_processes")
    \o Held("solver_processes")
    \o Held("current_solvers")
    \o <<Unlock("state")>>

\* memory_enforcer_loop (scheduler.rs:310-339): the tick (311),
\* remove_exited_solvers (313),
\* solvers_sorted_by_mem and stop_solver for the suspended and for the
\* running solvers (326-336)
memory_enforcer_script ==
    <<Await, Lock("state")>>
    \o Held("current_solvers")
    \o Held("solver_processes") \o Held("solver_processes")
    \o Held("solver_processes") \o Held("solver_processes")
    \o <<Unlock("state")>>

\* the start task: the wait for the compilation (solver_manager.rs:279-281),
\* then 294, 329-346, 843, 424
start_solver_script ==
    <<Await, Read("best_objective"), Unlock("best_objective")>>
    \o Held("solver_processes") \o Held("available_cores")
    \o Held("current_solvers")

\* the exit watcher: the exit of the solver or the cancellation
\* (solver_manager.rs:458-473), then 475-485; and the same with the scheduler's
\* lock taken while the map is locked
exit_watcher_script_into_state ==
    <<Await>> \o Held("available_cores") \o Held("current_solvers")
    \o <<Lock("solver_processes"), Lock("state"), Unlock("state"),
         Unlock("solver_processes")>>
exit_watcher_script ==
    <<Await>> \o Held("available_cores") \o Held("current_solvers") \o Held("solver_processes")

\* handle_solver_stdout (solver_manager.rs:503, 511, 547)
handle_solver_stdout_script ==
    Held("solver_processes") \o <<Await>> \o Held("solver_processes")

\* receiver (solver_manager.rs:168, 177)
receiver_script == <<Await, Write("best_objective"), Unlock("best_objective")>>

Script(t) ==
    CASE t = "apply" -> apply_script
      [] t = "memory_enforcer_loop" -> memory_enforcer_script
      [] t = "start_solver" -> start_solver_script
      [] t = "exit_watcher" -> exit_watcher_script
      [] t = "handle_solver_stdout" -> handle_solver_stdout_script
      [] t = "receiver" -> receiver_script

NoTask == "none"
LocksFree ==
    [pc |-> [t \in Tasks |-> 1],
     owner |-> [l \in Locks |-> NoTask],      \* Mutex guard, RwLock write guard
     readers |-> [l \in Locks |-> {}]]        \* RwLock read guards

NextOp(t) == Script(t)[locks.pc[t]]

\* a writer queued on l: tokio's RwLock is fair, readers queue behind it
WriterWaits(l) ==
    \E w \in Tasks : NextOp(w) = Write(l)

\* the acquisition that t is about to make can be granted
CanTake(t) ==
    \E o \in {NextOp(t)} :
       CASE o.op = "lock" -> locks.owner[o.on] = NoTask
         [] o.op = "write" -> locks.owner[o.on] = NoTask /\ locks.readers[o.on] = {}
         [] o.op = "read" -> locks.owner[o.on] = NoTask /\ ~WriterWaits(o.on)
         [] OTHER -> FALSE

Advance(L, t) ==
    [L EXCEPT !.pc[t] = IF @ = Len(Script(t)) THEN 1 ELSE @ + 1]

\* lock().await, read().await and write().await return their guard
Acquire(t) ==
    /\ CanTake(t)
    /\ \E o \in {NextOp(t)} :
          locks' = Advance(IF o.op = "read"
                           THEN [locks EXCEPT !.readers[o.on] = @ \cup {t}]
                           ELSE [locks EXCEPT !.owner[o.on] = t], t)
    /\ UNCHANGED <<flat, parser, orch, objective_type, pin_yuck, schedVars, solver_processes,
                   current_solvers, available_cores, best_objective, procs, compVars,
                   recvVars, program_cancelled, emitted>>

\* a guard is dropped
Release(t) ==
    /\ NextOp(t).op = "unlock"
    /\ \E o \in {NextOp(t)} :
          locks' = Advance([locks EXCEPT
                              !.readers[o.on] = @ \ {t},
                              !.owner[o.on] = IF @ = t THEN NoTask ELSE @], t)
    /\ UNCHANGED <<flat, parser, orch, objective_type, pin_yuck, schedVars, solver_processes,
                   current_solvers, available_cores, best_objective, procs, compVars,
                   recvVars, program_cancelled, emitted>>

\* what the task awaited has happened
Wake(t) ==
    /\ NextOp(t).op = "await"
    /\ locks' = Advance(locks, t)
    /\ UNCHANGED <<flat, parser, orch, objective_type, pin_yuck, schedVars, solver_processes,
                   current_solvers, available_cores, best_objective, procs, compVars,
                   recvVars, program_cancelled, emitted>>

(********************************* Init *************************************)
\* the orchestrator before sunny has chosen how to start (sunny.rs:37-64)
OrchIdle ==
    [phase |-> "idle", now |-> 0, Ts |-> 0, Tf |-> 0, sleep_done |-> FALSE,
     features_result |-> "pending", static |-> "pending", schedule |-> <<>>,
     loop_at |-> 0]

InitWith(types, pins) ==
    /\ objective_type \in types
    /\ pin_yuck \in pins
    /\ running_solvers = EmptyMap
    /\ suspended_solvers = EmptyMap
    /\ next_solver_id = 0
    /\ prev_objective = None
    /\ solver_processes = EmptyMap
    /\ current_solvers = {}
    /\ available_cores = AllCores
    /\ best_objective = None
    /\ procs = <<>>
    /\ compilations = [n \in Names |-> NoEntry]
    /\ compTasks = EmptyMap
    /\ chan = <<>>
    /\ objective = None
    /\ stdout = <<>>
    /\ program_cancelled = FALSE
    /\ receiver_done = FALSE
    /\ emitted = 0
    /\ orch = OrchIdle
    /\ locks = LocksFree
    /\ flat = <<>>
    /\ parser = ParserNew

(************************* the start task of a solver ***********************)
\* the cancellation token of start task p is cancelled: the restart loop hands
\* out the program token (sunny.rs:91-93), start_without_ai a token of its own
\* that the program token does not reach (sunny.rs:284)
TokenCancelled(p) ==
    \/ procs[p].token = "cancelled"
    \/ procs[p].token = "program" /\ program_cancelled

\* start_solver's `else` branch after a failed prepare (solver_manager.rs:423-426)
FailStart(W, p) ==
    [W EXCEPT !.procs[p].phase = "done", !.procs[p].obj = None,
              !.procs[p].gen = 0, !.cur = W.cur \ {W.procs[p].id}]

\* prepare_solver_process from the pipe() call on (solver_manager.rs:328-369)
\* and the spawning of the reader and the exit watcher (428-486).
\* W = [map, procs, cur, avail]; pipe is the outcome of pipe().
Live(W, p) ==
    [W EXCEPT !.procs[p].phase = "live", !.procs[p].reader = "init",
              !.procs[p].obj = None, !.procs[p].gen = 0]

\* solver_manager.rs:349-361: pin after the record is in the map
Pin(W, p, pin) ==
    IF pin.ok
    THEN Live([W EXCEPT !.procs[p].alloc = pin.alloc, !.avail = pin.avail], p)
    ELSE FailStart([W EXCEPT !.avail = pin.avail], p)

Record(W, p, ins) ==
    [W EXCEPT !.map = ins.map, !.procs = [ins.procs EXCEPT ![p].os = "running"]]

Spawn(W, p, obj, pipe) ==
    IF pipe = "left_fail" THEN FailStart(W, p)
    ELSE IF pipe = "right_fail"
        THEN FailStart([W EXCEPT !.procs[p].os = "running"], p)
    ELSE IF ~pin_yuck
        THEN Live(Record(W, p, InsertRecord(W.map, W.procs, W.procs[p].id, p, obj)), p)
    ELSE Pin(Record(W, p, InsertRecord(W.map, W.procs, W.procs[p].id, p, obj)), p,
             pin_yuck_solver_to_cores(W.procs[p].cores, W.avail))

\* solver_manager.rs:291-306: read the bound; with a bound the task awaits the
\* file I/O of insert_objective before it goes on to spawn
AfterCompile(W, p, pipe) ==
    IF best_objective # None
    THEN [W EXCEPT !.procs[p].phase = "insert", !.procs[p].obj = best_objective]
    ELSE Spawn(W, p, None, pipe)

World == [map |-> solver_processes, procs |-> procs,
          cur |-> current_solvers, avail |-> available_cores]

SetWorld(W) ==
    /\ solver_processes' = W.map
    /\ procs' = W.procs
    /\ current_solvers' = W.cur
    /\ available_cores' = W.avail

\* the spawned task up to its first pending await (solver_manager.rs:277-289)
TaskStart(p, pipe) ==
    /\ procs[p].phase = "new"
    /\ LET name == procs[p].name
           C == start_compilations(compilations, name)
           T == start_tasks(compilations, compTasks, name)
       IN /\ compilations' = C
          /\ compTasks' = T
          /\ SetWorld(IF TokenCancelled(p) THEN FailStart(World, p)
                      ELSE IF C[name].st = "DoneOk" THEN AfterCompile(World, p, pipe)
                      ELSE IF C[name].st = "DoneErr" THEN FailStart(World, p)
                      ELSE [World EXCEPT !.procs[p].phase = "wait",
                                         !.procs[p].gen = C[name].gen])
    /\ UNCHANGED <<flat, parser, locks, orch, objective_type, pin_yuck, schedVars, best_objective, recvVars,
                   program_cancelled, emitted>>

TaskWake_deaf_to_cancel(p, pipe) ==
    /\ procs[p].phase = "wait"
    /\ LET t == compTasks[<<procs[p].name, procs[p].gen>>] IN
       /\ TokenCancelled(p) \/ t.st \in {"ok", "err"}
       /\ SetWorld(IF TokenCancelled(p) THEN FailStart(World, p)
                   ELSE IF t.st = "ok" THEN AfterCompile(World, p, pipe)
                   ELSE FailStart(World, p))
    /\ UNCHANGED <<flat, parser, locks, orch, objective_type, pin_yuck, schedVars, best_objective, recvVars,
                   compVars, program_cancelled, emitted>>

\* the task is woken in run_until_cancelled(wait_for(..)) (279-289)
TaskWake(p, pipe) ==
    /\ procs[p].phase = "wait"
    /\ LET t == compTasks[<<procs[p].name, procs[p].gen>>] IN
       /\ TokenCancelled(p) \/ t.st # "run"
       /\ SetWorld(IF TokenCancelled(p) THEN FailStart(World, p)
                   ELSE IF t.st = "ok" THEN AfterCompile(World, p, pipe)
                   ELSE FailStart(World, p))
    /\ UNCHANGED <<flat, parser, locks, orch, objective_type, pin_yuck, schedVars, best_objective, recvVars,
                   compVars, program_cancelled, emitted>>

\* insert_objective has returned (solver_manager.rs:296-369)
TaskSpawn(p, pipe) ==
    /\ procs[p].phase = "insert"
    /\ SetWorld(Spawn(World, p, procs[p].obj, pipe))
    /\ UNCHANGED <<flat, parser, locks, orch, objective_type, pin_yuck, schedVars, best_objective, recvVars,
                   compVars, program_cancelled, emitted>>

\* the compilation task finishes (compilation_manager.rs:76-98)
CompileFinish(k, outcome) ==
    /\ k \in DOMAIN compTasks
    /\ compTasks[k].st = "run"
    /\ outcome = "cancelled" => CompCancelled(k)
    /\ compTasks' = [compTasks EXCEPT ![k].st = outcome]
    /\ compilations' =
         IF outcome = "cancelled" THEN compilations
         ELSE [compilations EXCEPT ![k[1]].st =
                                      IF outcome = "ok" THEN "DoneOk" ELSE "DoneErr"]
    /\ UNCHANGED <<flat, parser, locks, orch, objective_type, pin_yuck, schedVars, solver_processes,
                   current_solvers, available_cores, best_objective, procs, recvVars,
                   program_cancelled, emitted>>

\* the solver pipeline ends: it finished, crashed, or was force-killed
ProcExit(p) ==
    /\ procs[p].os \in {"running", "killed"}
    /\ procs' = [procs EXCEPT ![p].os = "dead",       \* the reader sees EOF
                               ![p].reader = IF @ = "none" THEN @ ELSE "off",
                               ![p].local_best = None]
    /\ UNCHANGED <<flat, parser, locks, orch, objective_type, pin_yuck, schedVars, solver_processes,
                   current_solvers, available_cores, best_objective, compVars,
                   recvVars, program_cancelled, emitted>>

\* the exit watcher (solver_manager.rs:455-485)
ExitWatcher(p) ==
    /\ procs[p].phase = "live"
    /\ procs[p].os = "dead" \/ TokenCancelled(p)
    /\ LET id == procs[p].id
           P1 == [procs EXCEPT ![p].phase = "done", ![p].alloc = {}]
       IN /\ available_cores' = available_cores \cup procs[p].alloc
          /\ current_solvers' = current_solvers \ {id}
          /\ solver_processes' = Remove(solver_processes, {id})
          /\ procs' = StopProcs(solver_processes, P1, {id})
    /\ UNCHANGED <<flat, parser, locks, orch, objective_type, pin_yuck, schedVars, best_objective, compVars,
                   recvVars, program_cancelled, emitted>>

(************************* stdout reader and receiver ***********************)
Solution(o) == [kind |-> "Solution", objective |-> o, status |-> ""]
Status(st) == [kind |-> "Status", objective |-> None, status |-> st]

\* what the parser can hand to handle_solver_stdout for this objective type
Outputs(objs, statuses) ==
    {Status(st) : st \in statuses} \cup
    (IF objective_type = "Satisfy" THEN {Solution(None)}
     ELSE {Solution(Some(o)) : o \in objs})

\* handle_solver_stdout reads its starting local_best (solver_manager.rs:502-505)
ReaderInit(p) ==
    /\ procs[p].reader = "init"
    /\ procs' = [procs EXCEPT
                   ![p].reader = "on",
                   ![p].local_best =
                       IF procs[p].id \in DOMAIN solver_processes
                       THEN solver_processes[procs[p].id].best_objective
                       ELSE None]
    /\ UNCHANGED <<flat, parser, locks, orch, objective_type, pin_yuck, schedVars, solver_processes,
                   current_solvers, available_cores, best_objective, compVars,
                   recvVars, program_cancelled, emitted>>

\* select! takes a line that is ready even when the token is cancelled too
ReaderActive(p) ==
    /\ procs[p].reader = "on"
    /\ procs[p].os \in {"running", "stopped", "killed"}

\* the reader's select! takes the cancelled() branch (solver_manager.rs:519)
ReaderCancel(p) ==
    /\ procs[p].reader = "on"
    /\ TokenCancelled(p)
    /\ procs' = [procs EXCEPT ![p].reader = "off", ![p].local_best = None]
    /\ UNCHANGED <<flat, parser, locks, orch, objective_type, pin_yuck, schedVars, solver_processes,
                   current_solvers, available_cores, best_objective, compVars,
                   recvVars, program_cancelled, emitted>>

\* one pass of the reader's loop for a line that yields an output (507-564)
Emit(p, out) ==
    /\ ReaderActive(p)
    /\ emitted' = emitted + 1
    /\ LET id == procs[p].id
           improves == /\ out.kind = "Solution"
                       /\ out.objective # None
                       /\ is_better(objective_type, procs[p].local_best,
                                    out.objective[1])
       IN /\ procs' = [procs EXCEPT
                         ![p].local_best = IF improves THEN out.objective ELSE @,
                         ![p].reader = IF receiver_done THEN "sendfail" ELSE @]
          /\ solver_processes' =
                IF improves /\ id \in DOMAIN solver_processes
                THEN [solver_processes EXCEPT ![id].best_objective = out.objective]
                ELSE solver_processes
    /\ chan' = IF receiver_done THEN chan ELSE Append(chan, out)
    /\ UNCHANGED <<flat, parser, locks, orch, objective_type, pin_yuck, schedVars, current_solvers,
                   available_cores, best_objective, compVars, objective, stdout,
                   receiver_done, program_cancelled>>

SolutionLine(obj) == [kind |-> "solution", obj |-> obj, text |-> ""]
StatusLine(text) == [kind |-> "status", obj |-> None, text |-> text]

\* the receiver's handling of one message (solver_manager.rs:168-203);
\* a printed solution block is identified by the objective it carries
receiver_no_filter(msg) ==
    IF msg.kind = "Solution" /\ msg.objective # None
    THEN [objective |-> msg.objective, shared |-> msg.objective,
          print |-> <<SolutionLine(msg.objective)>>,
          cancel |-> FALSE, break |-> FALSE]
    ELSE IF msg.kind = "Solution"
    THEN [objective |-> objective, shared |-> best_objective,
          print |-> <<SolutionLine(None)>>, cancel |-> TRUE, break |-> TRUE]
    ELSE IF msg.status # "Unknown"
    THEN [objective |-> objective, shared |-> best_objective,
          print |-> <<StatusLine(to_dzn_string(msg.status))>>,
          cancel |-> TRUE, break |-> TRUE]
    ELSE [objective |-> objective, shared |-> best_objective, print |-> <<>>,
          cancel |-> FALSE, break |-> FALSE]

receiver_no_break(msg) ==
    IF msg.kind = "Solution" /\ msg.objective # None
    THEN IF is_better(objective_type, objective, msg.objective[1])
         THEN [objective |-> msg.objective, shared |-> msg.objective,
               print |-> <<SolutionLine(msg.objective)>>,
               cancel |-> FALSE, break |-> FALSE]
         ELSE [objective |-> objective, shared |-> best_objective, print |-> <<>>,
               cancel |-> FALSE, break |-> FALSE]
    ELSE IF msg.kind = "Solution"
    THEN [objective |-> objective, shared |-> best_objective,
          print |-> <<SolutionLine(None)>>, cancel |-> TRUE, break |-> TRUE]
    ELSE IF msg.status # "Unknown"
    THEN [objective |-> objective, shared |-> best_objective,
          print |-> <<StatusLine(to_dzn_string(msg.status))>>,
          cancel |-> TRUE, break |-> FALSE]
    ELSE [objective |-> objective, shared |-> best_objective, print |-> <<>>,
          cancel |-> FALSE, break |-> FALSE]

receiver_sat_goes_on(msg) ==
    IF msg.kind = "Solution" /\ msg.objective # None
    THEN IF is_better(objective_type, objective, msg.objective[1])
         THEN [objective |-> msg.objective, shared |-> msg.objective,
               print |-> <<SolutionLine(msg.objective)>>,
               cancel |-> FALSE, break |-> FALSE]
         ELSE [objective |-> objective, shared |-> best_objective, print |-> <<>>,
               cancel |-> FALSE, break |-> FALSE]
    ELSE IF msg.kind = "Solution"
    THEN [objective |-> objective, shared |-> best_objective,
          print |-> <<SolutionLine(None)>>, cancel |-> TRUE, break |-> FALSE]
    ELSE IF msg.status # "Unknown"
    THEN [objective |-> objective, shared |-> best_objective,
          print |-> <<StatusLine(to_dzn_string(msg.status))>>,
          cancel |-> TRUE, break |-> TRUE]
    ELSE [objective |-> objective, shared |-> best_objective, print |-> <<>>,
          cancel |-> FALSE, break |-> FALSE]

receiver(msg) ==
    IF msg.kind = "Solution" /\ msg.objective # None
    THEN IF is_better(objective_type, objective, msg.objective[1])
         THEN [objective |-> msg.objective, shared |-> msg.objective,
               print |-> <<SolutionLine(msg.objective)>>,
               cancel |-> FALSE, break |-> FALSE]
         ELSE [objective |-> objective, shared |-> best_objective, print |-> <<>>,
               cancel |-> FALSE, break |-> FALSE]
    ELSE IF msg.kind = "Solution"
    THEN [objective |-> objective, shared |-> best_objective,
          print |-> <<SolutionLine(None)>>, cancel |-> TRUE, break |-> TRUE]
    ELSE IF msg.status # "Unknown"
    THEN [objective |-> objective, shared |-> best_objective,
          print |-> <<StatusLine(to_dzn_string(msg.status))>>,
          cancel |-> TRUE, break |-> TRUE]
    ELSE [objective |-> objective, shared |-> best_objective, print |-> <<>>,
          cancel |-> FALSE, break |-> FALSE]

Receive ==
    /\ ~receiver_done
    /\ chan # <<>>
    /\ \E r \in {receiver(Head(chan))} :
       /\ objective' = r.objective
       /\ best_objective' = r.shared
       /\ stdout' = stdout \o r.print
       /\ program_cancelled' = (program_cancelled \/ r.cancel)
       /\ receiver_done' = r.break
       /\ chan' = IF r.break THEN <<>> ELSE Tail(chan)   \* rx is dropped on break
    /\ UNCHANGED <<flat, parser, locks, orch, objective_type, pin_yuck, schedVars, solver_processes,
                   current_solvers, available_cores, procs, compVars, emitted>>

\* SIGINT, SIGTERM, SIGHUP or SIGQUIT (signal_handler.rs:41-56)
Interrupt ==
    /\ ~program_cancelled
    /\ program_cancelled' = TRUE
    /\ UNCHANGED <<flat, parser, locks, orch, objective_type, pin_yuck, schedVars, solver_processes,
                   current_solvers, available_cores, best_objective, procs, compVars,
                   recvVars, emitted>>

(********************************* apply ************************************)
Names_of(portfolio) == {portfolio[i].name : i \in DOMAIN portfolio}

to_restart_unchanged_too ==
    IF best_objective # None
    THEN {id \in DOMAIN solver_processes :
            is_better(objective_type, solver_processes[id].best_objective,
                      best_objective[1])}
    ELSE {}

\* Step A of apply (scheduler.rs:408-442): the solvers whose own best is
\* behind a bound that changed since the last apply
to_restart ==
    IF best_objective # prev_objective /\ best_objective # None
    THEN {id \in DOMAIN solver_processes :
            is_better(objective_type, solver_processes[id].best_objective,
                      best_objective[1])}
    ELSE {}

\* stop_solvers(&to_restart) and the removal from the state (scheduler.rs:434-440)
StepA(ids) ==
    [map |-> StopMap(solver_processes, ids),
     procs |-> StopProcs(solver_processes, procs, ids),
     running |-> Remove(running_solvers, ids),
     suspended |-> Remove(suspended_solvers, ids)]

\* Step B (scheduler.rs:444): ro and so are the iteration orders of the running
\* and suspended HashMaps when assign_ids collects them
StepB(a, portfolio, ro, so) ==
    assign_ids(portfolio,
               Entries(a.running, SelectSeq(ro, LAMBDA id : id \in DOMAIN a.running))
               \o Entries(a.suspended,
                          SelectSeq(so, LAMBDA id : id \in DOMAIN a.suspended)),
               next_solver_id)

\* Step C (scheduler.rs:445-448)
StepCState(running, suspended, changes) ==
    [changes |-> changes,
     state |-> apply_changes_to_state(running, suspended, changes)]

StepCWith(running, suspended, schedule) ==
    StepCState(running, suspended, categorize_schedule(schedule, running, suspended))

StepC(a, schedule) ==
    StepCWith(remove_exited_solvers(a.running, current_solvers),
              remove_exited_solvers(a.suspended, current_solvers), schedule)

\* Step D, suspend: a failed suspend escalates to stop_solvers, whose error
\* ends apply through `?` (scheduler.rs:458-467)
SuspendOrStop(M, P, ids, errs) ==
    IF errs = {}
    THEN [map |-> M, procs |-> SignalSolvers(M, P, ids, "SIGSTOP"),
          early |-> FALSE, suspendErr |-> errs]
    ELSE [map |-> StopMap(M, ids),
          procs |-> StopProcs(M, SignalSolvers(M, P, ids, "SIGSTOP"), ids),
          early |-> StopErrors(M, ids) # {}, suspendErr |-> errs]

\* Step D, resume: on any error every element of to_resume is started again
\* (scheduler.rs:469-486)
ResumeOrStart(M, P, schedule, to_resume, errs) ==
    [procs |-> SignalSolvers(M, P, Range(to_resume), "SIGCONT"),
     restart |-> IF errs # {} THEN resume_elements(schedule, to_resume) ELSE <<>>,
     resumeErr |-> errs]

\* Step D, start (scheduler.rs:488-494), and what apply leaves behind
StepDStart(b, c, s, r) ==
    [schedule |-> b.schedule, next |-> b.next, changes |-> c.changes,
     running |-> c.state.running, suspended |-> c.state.suspended,
     map |-> s.map, ok |-> ~s.early,
     suspendErr |-> s.suspendErr, resumeErr |-> r.resumeErr,
     started |-> IF s.early THEN <<>> ELSE r.restart \o c.changes.to_start,
     procs |-> IF s.early THEN s.procs
               ELSE StartSolvers(r.procs, r.restart \o c.changes.to_start)]

StepDResume(b, c, s) ==
    StepDStart(b, c, s,
               IF s.early THEN [procs |-> s.procs, restart |-> <<>>, resumeErr |-> {}]
               ELSE ResumeOrStart(s.map, s.procs, b.schedule, c.changes.to_resume,
                                  SignalErrors(s.map, s.procs,
                                               Range(c.changes.to_resume))))

StepD(a, b, c) ==
    StepDResume(b, c, SuspendOrStop(a.map, a.procs, c.changes.to_suspend,
                                    SignalErrors(a.map, a.procs, c.changes.to_suspend)))

StepsCD(a, b) == StepD(a, b, StepC(a, b.schedule))
StepsBCD(a, portfolio, ro, so) == StepsCD(a, StepB(a, portfolio, ro, so))

\* Scheduler::apply from the state lock on (scheduler.rs:407-496): what the
\* call computes and what it does to the solver manager
ApplyPlan(portfolio, ro, so) == StepsBCD(StepA(to_restart), portfolio, ro, so)

\* start_solvers hands its cancellation token to every task it spawns
\* (solver_manager.rs:586-595): the tasks that P1 has and P0 has not get tok
Retoken(P0, P1, tok) ==
    IF tok = "program" THEN P1
    ELSE [i \in DOMAIN P1 |->
            IF i > Len(P0) THEN [P1[i] EXCEPT !.token = tok] ELSE P1[i]]

\* Scheduler::apply (scheduler.rs:393-497) with the token tok
ApplyWith(portfolio, stop_other, ro, so, tok) ==
    /\ ~program_cancelled                       \* sunny.rs:83-88
    /\ LET \* stop_all_except (scheduler.rs:399-405)
           stopNames == IF stop_other
                        THEN stop_all_except_names(compilations, Names_of(portfolio))
                        ELSE {}
       IN /\ \E plan \in {ApplyPlan(portfolio, ro, so)} :
                /\ prev_objective' = best_objective     \* scheduler.rs:418
                /\ next_solver_id' = plan.next
                /\ running_solvers' = plan.running
                /\ suspended_solvers' = plan.suspended
                /\ solver_processes' = plan.map
                /\ procs' = Retoken(procs, plan.procs, tok)
                /\ current_solvers' = current_solvers \cup Ids(plan.started)
          /\ compilations' = stop_compilations(compilations, stopNames)
          /\ compTasks' = stop_tasks(compilations, compTasks, stopNames)
    /\ UNCHANGED <<flat, parser, locks, objective_type, pin_yuck, available_cores, best_objective,
                   recvVars, program_cancelled, emitted>>

\* the calls of the restart loop pass the program token (sunny.rs:91-93)
Apply(portfolio, stop_other, ro, so) ==
    ApplyWith(portfolio, stop_other, ro, so, "program")

\* start_without_ai (sunny.rs:278-298): the first apply of a run gets a token
\* of its own
StaticApply(portfolio, stop_other) ==
    /\ procs = <<>>
    /\ next_solver_id = 0
    /\ ApplyWith(portfolio, stop_other, <<>>, <<>>, "apply")

\* the static runtime elapses before that apply is over: its token is
\* cancelled (sunny.rs:293-296)
CancelApplyToken ==
    /\ \E p \in Pids : procs[p].token = "apply"
    /\ procs' = [p \in Pids |->
                   IF procs[p].token = "apply"
                   THEN [procs[p] EXCEPT !.token = "cancelled"] ELSE procs[p]]
    /\ UNCHANGED <<flat, parser, locks, orch, objective_type, pin_yuck, schedVars, solver_processes,
                   current_solvers, available_cores, best_objective, compVars,
                   recvVars, program_cancelled, emitted>>

(***************************** memory enforcer ******************************)
memory_threshold == 9            \* Config.memory_threshold = 0.9, in tenths
Totals == {20}                   \* total memory (or MEMORY_LIMIT), in units
Useds == {17, 21}                \* used memory sampled by a tick
Rss == {1, 4}                    \* process-tree RSS of a live solver
MemUseds == {21, 30}             \* used memory in the eviction specification
MemRss == {4, 7, 14}             \* process-tree RSS in the eviction specification

\* get_process_tree_memory: a process that is gone contributes nothing
TreeMemory(rss, pid) ==
    IF procs[pid].os \in {"running", "stopped", "killed"} THEN rss[pid] ELSE 0

\* solvers_sorted_by_mem (solver_manager.rs:745-769): ids without a record are
\* skipped; order is the iteration order of ids, stably sorted by memory
IsSortedByMem(order, ids, rss) ==
    /\ order \in SeqOfSet(ids \cap DOMAIN solver_processes)
    /\ \A i, j \in DOMAIN order :
          i < j => TreeMemory(rss, solver_processes[order[i]].pid)
                   >= TreeMemory(rss, solver_processes[order[j]].pid)

MemOf(rss, id) == TreeMemory(rss, solver_processes[id].pid)

\* the while loops of kill_*_until_under_threshold (scheduler.rs:224-234, 281-291)
RECURSIVE kill_while(_, _, _, _, _)
kill_while(sorted, used, total, rss, acc) ==
    IF sorted # <<>> /\ is_over_threshold(used, total, memory_threshold)
    THEN kill_while(Tail(sorted), used - MemOf(rss, Head(sorted)), total, rss,
                    acc \cup {Head(sorted)})
    ELSE [killed |-> acc, used |-> used]

\* kill_suspended_until_under_threshold (scheduler.rs:213-236)
kill_suspended_until_under_threshold(sorted, used, total, rss) ==
    kill_while(sorted, used, total, rss, {})

RECURSIVE unfair_loop_while_over(_, _, _, _, _)
unfair_loop_while_over(sorted, used, per_core_threshold, rss, acc) ==
    IF sorted = <<>> THEN acc
    ELSE LET id == Head(sorted)
             mem == MemOf(rss, id)
         IN IF /\ mem \div running_solvers[id].cores > per_core_threshold
               /\ is_over_threshold(acc.used, CHOOSE t \in Totals : TRUE,
                                    memory_threshold)
            THEN unfair_loop_while_over(Tail(sorted), used, per_core_threshold, rss,
                             [acc EXCEPT !.killed = @ \cup {id}, !.used = @ - mem])
            ELSE unfair_loop_while_over(Tail(sorted), used, per_core_threshold, rss,
                             [acc EXCEPT !.remaining = Append(@, id)])

\* the for loop of kill_running_until_under_threshold (scheduler.rs:258-280)
RECURSIVE unfair_loop(_, _, _, _, _)
unfair_loop(sorted, used, per_core_threshold, rss, acc) ==
    IF sorted = <<>> THEN acc
    ELSE LET id == Head(sorted)
             mem == MemOf(rss, id)
         IN IF mem \div running_solvers[id].cores > per_core_threshold
            THEN unfair_loop(Tail(sorted), used, per_core_threshold, rss,
                             [acc EXCEPT !.killed = @ \cup {id}, !.used = @ - mem])
            ELSE unfair_loop(Tail(sorted), used, per_core_threshold, rss,
                             [acc EXCEPT !.remaining = Append(@, id)])

\* kill_running_until_under_threshold (scheduler.rs:238-293); running is the
\* map after remove_exited_solvers
kill_remaining(first, total, rss) ==
    kill_while(first.remaining, first.used, total, rss, first.killed)

kill_running_until_under_threshold(running, sorted, used, total, rss) ==
    IF SumCores(running, DOMAIN running) = 0 THEN [killed |-> {}, used |-> used]
    ELSE kill_remaining(
           unfair_loop(sorted, used,
                       (total * memory_threshold)
                           \div (10 * SumCores(running, DOMAIN running)),
                       rss, [killed |-> {}, used |-> used, remaining |-> <<>>]),
           total, rss)

\* what one pass kills: suspended solvers first, then running ones
\* (scheduler.rs:325-336)
TickRunning(run0, ks, total, rss, rOrder) ==
    [suspended |-> ks.killed,
     running |-> IF is_over_threshold(ks.used, total, memory_threshold)
                 THEN kill_running_until_under_threshold(run0, rOrder, ks.used,
                                                         total, rss).killed
                 ELSE {}]

TickKills(run0, used, total, rss, sOrder, rOrder) ==
    IF is_over_threshold(used, total, memory_threshold)
    THEN TickRunning(run0,
                     kill_suspended_until_under_threshold(sOrder, used, total, rss),
                     total, rss, rOrder)
    ELSE [suspended |-> {}, running |-> {}]

\* one pass of memory_enforcer_loop (scheduler.rs:310-339)
MemTick(used, total, rss, sOrder, rOrder) ==
    /\ ~program_cancelled                       \* scheduler.rs:179-182
    /\ \E run0 \in {remove_exited_solvers(running_solvers, current_solvers)},
          sus0 \in {remove_exited_solvers(suspended_solvers, current_solvers)} :
          /\ rss \in [{solver_processes[id].pid :
                        id \in ((DOMAIN run0) \cup DOMAIN sus0)
                               \cap DOMAIN solver_processes} -> Rss \cup MemRss]
          /\ IsSortedByMem(sOrder, DOMAIN sus0, rss)
          /\ IsSortedByMem(rOrder, DOMAIN run0, rss)
          /\ \E k \in {TickKills(run0, used, total, rss, sOrder, rOrder)} :
                /\ running_solvers' = Remove(run0, k.running)
                /\ suspended_solvers' = Remove(sus0, k.suspended)
                /\ solver_processes' =
                      StopMap(solver_processes, k.running \cup k.suspended)
                /\ procs' = StopProcs(solver_processes, procs,
                                      k.running \cup k.suspended)
    /\ UNCHANGED <<flat, parser, locks, orch, objective_type, pin_yuck, next_solver_id, prev_objective,
                   current_solvers, available_cores, best_objective, compVars,
                   recvVars, program_cancelled, emitted>>

(****************************** the orchestrator ****************************)
StaticRuntimes == {1, 2}             \* --static-runtime, T_s in seconds
FeatureTimeouts == {1, 3}            \* --feature-timeout, T_f in seconds
\* what get_features returns (sunny.rs:328-337): the features, or the error of
\* the flattening or of the extractor
FeatureOutcomes == {"features", "flatten_err", "extractor_err"}
StaticPortfolio == <<SolverInfo("A", 1)>>       \* static_schedule(args, cores)
AdvisorPortfolio == <<SolverInfo("B", 1)>>      \* ai.schedule(features, cores)
TimeoutPortfolio == <<SolverInfo("A", 1), SolverInfo("B", 1)>>  \* timeout_schedule

\* sunny.rs:158-159
feature_timeout_duration(feature_timeout, static_runtime) ==
    IF feature_timeout >= static_runtime THEN feature_timeout ELSE static_runtime

InStart == orch.phase \in {"select", "inner"}

\* the barrier, tokio::join! of the timeout and the sleep (sunny.rs:160-168),
\* is ready when both of its futures are
barrier_ready_first(o) == o.features_result # "pending" \/ o.sleep_done
barrier_ready(o) == o.features_result # "pending" /\ o.sleep_done

\* sunny enters start_with_ai (sunny.rs:61-78, 158-173): the timer of the
\* restart loop, the barrier and the static apply start at the same instant
StartWithAi(ts, tf) ==
    /\ orch.phase = "idle"
    /\ procs = <<>> /\ next_solver_id = 0
    /\ orch' = [OrchIdle EXCEPT !.phase = "select", !.Ts = ts,
                                !.Tf = feature_timeout_duration(tf, ts)]
    /\ UNCHANGED <<flat, parser, locks, objective_type, pin_yuck, schedVars, solver_processes,
                   current_solvers, available_cores, best_objective, procs, compVars,
                   recvVars, program_cancelled, emitted>>

OrchKeeps ==
    UNCHANGED <<flat, parser, locks, objective_type, pin_yuck, schedVars, solver_processes,
                current_solvers, available_cores, best_objective, procs, compVars,
                recvVars, program_cancelled, emitted>>

\* one second passes; a timer that is due fires before the clock moves on
OrchTick ==
    /\ InStart
    /\ orch.now < MaxTime
    /\ ~(orch.now >= orch.Ts /\ ~orch.sleep_done)
    /\ ~(orch.now >= orch.Tf /\ orch.features_result = "pending")
    /\ ~barrier_ready(orch)
    /\ orch' = [orch EXCEPT !.now = @ + 1]
    /\ OrchKeeps

\* get_features returns before the timeout has fired (sunny.rs:162-165, 328-337)
FeatFinish(res) ==
    /\ InStart
    /\ orch.features_result = "pending"
    /\ orch' = [orch EXCEPT !.features_result = res]
    /\ OrchKeeps

\* timeout(feature_timeout_duration, ..) elapses (sunny.rs:162-165)
TimeoutFire ==
    /\ InStart
    /\ orch.features_result = "pending"
    /\ orch.now >= orch.Tf
    /\ orch' = [orch EXCEPT !.features_result = "elapsed"]
    /\ OrchKeeps

\* sleep(static_runtime_duration) of the barrier elapses (sunny.rs:166)
SleepFire ==
    /\ InStart
    /\ ~orch.sleep_done
    /\ orch.now >= orch.Ts
    /\ orch' = [orch EXCEPT !.sleep_done = TRUE]
    /\ OrchKeeps

\* the static apply returns first (sunny.rs:172-173, 180); its token is a child
\* of the program token (sunny.rs:64)
StaticApplied ==
    /\ orch.phase = "select"
    /\ ApplyWith(StaticPortfolio, FALSE, <<>>, <<>>, "program")
    /\ orch' = [orch EXCEPT !.phase = "inner", !.static = "finished"]

\* sunny.rs:189-198: the portfolio that the result of the barrier selects;
\* an error of get_features leaves start_with_ai through `?`
select_schedule(o) ==
    IF o.features_result = "features"
    THEN [o EXCEPT !.phase = "chosen", !.schedule = AdvisorPortfolio]
    ELSE IF o.features_result = "elapsed"
    THEN [o EXCEPT !.phase = "chosen", !.schedule = TimeoutPortfolio]
    ELSE [o EXCEPT !.phase = "failed"]

\* the barrier completes, in the outer select or after the static apply
\* (sunny.rs:175-187); in the outer select the pending apply is dropped
BarrierDone ==
    /\ InStart
    /\ barrier_ready(orch)
    /\ orch' = select_schedule([orch EXCEPT !.static = IF orch.phase = "select"
                                                       THEN "dropped" ELSE @])
    /\ OrchKeeps

\* the token is cancelled while start_with_ai waits for the barrier (sunny.rs:183)
InnerCancelled ==
    /\ orch.phase = "inner"
    /\ program_cancelled
    /\ orch' = [orch EXCEPT !.phase = "failed"]
    /\ OrchKeeps

\* the first turn of the restart loop (sunny.rs:82-93): its timer was created
\* with static_runtime before start_with_ai (sunny.rs:61-62)
LoopApply ==
    /\ orch.phase = "chosen"
    /\ orch.now >= orch.Ts
    /\ \E ro \in SeqOfSet(DOMAIN running_solvers),
          su \in SeqOfSet(DOMAIN suspended_solvers) :
            Apply(orch.schedule, FALSE, ro, su)
    /\ orch' = [orch EXCEPT !.phase = "loop", !.loop_at = orch.now]

\* a child process of the run is alive
ChildAlive ==
    \/ \E p \in DOMAIN procs : procs[p].os \in {"running", "stopped"}
    \/ \E k \in DOMAIN compTasks : compTasks[k].st = "run"

\* sunny returns Err(Cancelled) (sunny.rs:85-87, 183), run returns
\* (main.rs:109-113) and the runtime of main is dropped (main.rs:33-34): every
\* task is dropped, with them the process map, whose records kill their
\* process trees (solver_manager.rs:73-82), and the flatteners, spawned with
\* kill_on_drop (compilation.rs:84)
Teardown ==
    /\ program_cancelled
    /\ orch.phase # "down"
    /\ orch' = [orch EXCEPT !.phase = "down"]
    /\ solver_processes' = EmptyMap
    /\ procs' = [p \in DOMAIN procs |->
                   [StopProcs(solver_processes, procs, DOMAIN solver_processes)[p]
                      EXCEPT !.phase = "done", !.reader = IF @ = "none" THEN @ ELSE "off"]]
    /\ compTasks' = [k \in DOMAIN compTasks |->
                       [compTasks[k] EXCEPT !.st = IF @ = "run" THEN "cancelled" ELSE @]]
    /\ UNCHANGED <<flat, parser, locks, objective_type, pin_yuck, schedVars, current_solvers,
                   available_cores, best_objective, compilations, recvVars,
                   program_cancelled, emitted>>

(********************************** Next ************************************)
\* The steps of the environment and of the spawned tasks, with the caps of the
\* model: at most maxProcs start tasks, ids below maxId, maxEmit parser events.
ApplyStep(portfolios, stops, maxProcs, maxId) ==
    \E pf \in portfolios, so \in stops :
      \E ro \in SeqOfSet(DOMAIN running_solvers),
         su \in SeqOfSet(DOMAIN suspended_solvers) :
            /\ Apply(pf, so, ro, su)
            /\ Len(procs') <= maxProcs
            /\ next_solver_id' <= maxId
            /\ UNCHANGED orch

\* the solvers a tick measures: tracked, not exited, with a record
Measured(f) == (DOMAIN f) \cap current_solvers \cap DOMAIN solver_processes

TickStepOf(useds, rssValues) ==
    \E used \in useds, total \in Totals :
      \E rss \in [{solver_processes[id].pid :
                     id \in Measured(running_solvers) \cup Measured(suspended_solvers)}
                  -> rssValues] :
         \E sOrder \in SeqOfSet(Measured(suspended_solvers)),
            rOrder \in SeqOfSet(Measured(running_solvers)) :
               MemTick(used, total, rss, sOrder, rOrder)

TickStep(useds) == TickStepOf(useds, Rss)

StaticApplyStep(portfolios, stops, maxProcs) ==
    \E pf \in portfolios, so \in stops :
        StaticApply(pf, so) /\ Len(procs') <= maxProcs /\ UNCHANGED orch

TaskStartStep(pipes) ==
    \E p \in Pids, pipe \in pipes :
        TaskStart(p, pipe) /\ \A n \in Names : compilations'[n].gen <= MaxCompile
TaskWakeStep(pipes) == \E p \in Pids, pipe \in pipes : TaskWake(p, pipe)
TaskSpawnStep(pipes) == \E p \in Pids, pipe \in pipes : TaskSpawn(p, pipe)
CompileFinishStep(outcomes) ==
    \E k \in DOMAIN compTasks, outcome \in outcomes : CompileFinish(k, outcome)
ProcExitStep == \E p \in Pids : ProcExit(p)
ExitWatcherStep == \E p \in Pids : ExitWatcher(p)
ReaderInitStep == \E p \in Pids : ReaderInit(p)
ReaderCancelStep == \E p \in Pids : ReaderCancel(p)
EmitStep(objs, statuses, maxEmit) ==
    \E p \in Pids, out \in Outputs(objs, statuses) : emitted < maxEmit /\ Emit(p, out)

\* The scheduler and the solver manager: apply calls, enforcer ticks, start
\* tasks, solver exits and improving solutions of a minimisation problem.
Init == InitWith({"Minimize"}, {FALSE})

Next ==
    \/ ApplyStep(Portfolios, {FALSE}, MaxProcs, MaxId)
    \/ TickStep(Useds)
    \/ TaskStartStep({"ok"})
    \/ TaskWakeStep({"ok"})
    \/ TaskSpawnStep({"ok"})
    \/ CompileFinishStep({"ok", "err"})
    \/ ProcExitStep
    \/ ExitWatcherStep
    \/ ReaderInitStep
    \/ EmitStep({7}, {}, MaxEmit)
    \/ Receive

Spec == Init /\ [][Next]_vars

\* The receiver: one two-solver portfolio applied again and again, so that a
\* new bound restarts the solver that is behind; every objective type, every
\* status, and solutions that arrive in any order from old and new processes.
RecvPortfolios == {<<SolverInfo("A", 2), SolverInfo("B", 1)>>}

InitRecv == InitWith(ObjectiveTypes, {FALSE})

NextRecv ==
    \/ ApplyStep(RecvPortfolios, {FALSE}, RecvProcs, RecvProcs)
    \/ TaskStartStep({"ok"})
    \/ TaskWakeStep({"ok"})
    \/ TaskSpawnStep({"ok"})
    \/ CompileFinishStep({"ok"})
    \/ ExitWatcherStep
    \/ ReaderInitStep
    \/ ReaderCancelStep
    \/ EmitStep(Objs, Statuses, RecvEmit)
    \/ Receive

SpecRecv == InitRecv /\ [][NextRecv]_vars

\* CPU pinning: the runs of Spec with --pin-yuck, where a start takes its
\* cores from available_cores and the exit watcher gives them back.
InitPin == InitWith({"Minimize"}, {TRUE})

NextPin ==
    \/ ApplyStep(Portfolios, {FALSE}, MaxProcs, MaxId)
    \/ TickStep(Useds)
    \/ TaskStartStep({"ok", "left_fail", "right_fail"})
    \/ TaskWakeStep({"ok", "left_fail", "right_fail"})
    \/ CompileFinishStep({"ok", "err"})
    \/ ProcExitStep
    \/ ExitWatcherStep
    \/ Interrupt

SpecPin == InitPin /\ [][NextPin]_vars

\* Slot identity: the one- and two-solver portfolios applied in any order
\* while solvers compile, start and report a bound, so that slots are
\* suspended, resumed, kept and restarted by the bound.
SlotPortfolios ==
    {<<SolverInfo("A", 2)>>, <<SolverInfo("B", 1)>>,
     <<SolverInfo("A", 2), SolverInfo("B", 1)>>}

InitSlots == InitWith({"Minimize"}, {FALSE})

NextSlots ==
    \/ ApplyStep(SlotPortfolios, {FALSE}, SlotProcs, SlotProcs)
    \/ TaskStartStep({"ok"})
    \/ TaskWakeStep({"ok"})
    \/ TaskSpawnStep({"ok"})
    \/ CompileFinishStep({"ok"})
    \/ ReaderInitStep
    \/ EmitStep({7}, {}, MaxEmit)
    \/ Receive

SpecSlots == InitSlots /\ [][NextSlots]_vars

\* The compilation manager: a static first apply with a token of its own,
\* later applies that may stop the compilations of the names they leave out,
\* two start tasks that wait for the same compilation, flatteners that
\* succeed or are cancelled, and interrupts.
CompPortfolios ==
    {<<SolverInfo("A", 1), SolverInfo("A", 1)>>, <<SolverInfo("B", 1)>>}

InitComp == InitWith({"Minimize"}, {FALSE})

NextComp ==
    \/ StaticApplyStep(CompPortfolios, BOOLEAN, CompProcs)
    \/ ApplyStep(CompPortfolios, BOOLEAN, CompProcs, CompProcs)
    \/ CancelApplyToken
    \/ TaskStartStep({"ok"})
    \/ TaskWakeStep({"ok"})
    \/ CompileFinishStep({"ok", "cancelled"})
    \/ Interrupt

SpecComp == InitComp /\ [][NextComp]_vars

\* Cancelled starts: the static apply of a two-solver portfolio under
\* --pin-yuck with two cores, whose token is cancelled at any moment of the
\* two starts, with a bound that makes a start pause at insert_objective, a
\* pipe() that may fail, and exit watchers that clean up.
CancelPortfolios ==
    {<<SolverInfo("A", 2), SolverInfo("B", 1)>>,
     <<SolverInfo("B", 1), SolverInfo("B", 1)>>}

InitCancel == InitWith({"Minimize"}, {TRUE})

NextCancel ==
    \/ StaticApplyStep(CancelPortfolios, {FALSE}, MaxProcs)
    \/ CancelApplyToken
    \/ TaskStartStep({"ok", "right_fail"})
    \/ TaskWakeStep({"ok", "right_fail"})
    \/ TaskSpawnStep({"ok", "right_fail"})
    \/ CompileFinishStep({"ok"})
    \/ ReaderInitStep
    \/ ReaderCancelStep
    \/ EmitStep({7}, {}, MaxEmit)
    \/ Receive
    \/ ProcExitStep
    \/ ExitWatcherStep

SpecCancel == InitCancel /\ [][NextCancel]_vars

\* Eviction: the runs of the scheduler with ticks that find the memory over
\* the threshold and solvers large enough to exceed their share per core.
MemPortfolios ==
    {<<>>, <<SolverInfo("B", 1)>>, <<SolverInfo("A", 2), SolverInfo("B", 1)>>}

InitMem == InitWith({"Minimize"}, {FALSE})

NextMem ==
    \/ ApplyStep(MemPortfolios, {FALSE}, MaxProcs, MaxId)
    \/ TickStepOf(MemUseds, MemRss)
    \/ TaskStartStep({"ok"})
    \/ TaskWakeStep({"ok"})
    \/ CompileFinishStep({"ok"})
    \/ ProcExitStep
    \/ ExitWatcherStep

SpecMem == InitMem /\ [][NextMem]_vars

\* the resumes: portfolios that suspend and resume two slots, with room for
\* the start tasks of a restart
ResumePortfolios == {<<>>, <<SolverInfo("A", 2)>>,
                     <<SolverInfo("A", 2), SolverInfo("B", 1)>>}
InitResume == InitWith({"Minimize"}, {FALSE})
NextResume ==
    \/ ApplyStep(ResumePortfolios, {FALSE}, ResumeProcs, MaxId)
    \/ TaskStartStep({"ok"})
    \/ TaskWakeStep({"ok"})
    \/ CompileFinishStep({"ok"})
    \/ ProcExitStep
    \/ ExitWatcherStep
SpecResume == InitResume /\ [][NextResume]_vars

\* the start with an advisor: the orchestrator's clock, the feature
\* extraction, the static apply and the first turn of the restart loop
StartWithAiStep == \E ts \in StaticRuntimes, tf \in FeatureTimeouts : StartWithAi(ts, tf)
FeatFinishStep == \E res \in FeatureOutcomes : FeatFinish(res)
StaticAppliedStep == StaticApplied /\ Len(procs') <= AiProcs
LoopApplyStep == LoopApply /\ Len(procs') <= AiProcs
InitAi == InitWith({"Minimize"}, {FALSE})
NextAi ==
    \/ StartWithAiStep
    \/ OrchTick
    \/ FeatFinishStep
    \/ TimeoutFire
    \/ SleepFire
    \/ StaticAppliedStep
    \/ BarrierDone
    \/ InnerCancelled
    \/ LoopApplyStep
    \/ Interrupt
    \/ TaskStartStep({"ok"})
    \/ TaskWakeStep({"ok"})
    \/ CompileFinishStep({"ok"})
SpecAi == InitAi /\ [][NextAi]_vars

\* the locking of the tasks that run side by side
AcquireStep == \E t \in Tasks : Acquire(t)
ReleaseStep == \E t \in Tasks : Release(t)
WakeStep == \E t \in Tasks : Wake(t)
InitLocks == InitWith({"Minimize"}, {FALSE})
NextLocks == WakeStep \/ AcquireStep \/ ReleaseStep
SpecLocks == InitLocks /\ [][NextLocks]_vars

\* the end of a run: solvers started by the static apply and by the restart
\* loop, compiling, running or suspended when the program token is cancelled
DownPortfolios == {<<>>, <<SolverInfo("A", 1)>>, <<SolverInfo("B", 1)>>}
InitDown == InitWith({"Minimize"}, {FALSE})
NextDown ==
    \/ StaticApplyStep(DownPortfolios \ {<<>>}, {FALSE}, MaxProcs)
    \/ ApplyStep(DownPortfolios, {FALSE}, MaxProcs, MaxId)
    \/ TaskStartStep({"ok", "right_fail"})
    \/ TaskWakeStep({"ok", "right_fail"})
    \/ CompileFinishStep({"ok", "cancelled"})
    \/ ProcExitStep
    \/ ExitWatcherStep
    \/ Interrupt
    \/ Teardown
\* run returns once the token is cancelled: the exit of main is not postponed
\* for ever
SpecDown == InitDown /\ [][NextDown]_vars /\ WF_vars(Teardown)

\* The scheduler's signal task (scheduler.rs:132-152), for one event of the
\* signal handler (signal_handler.rs: SIGTSTP sends Suspend, SIGCONT sends
\* Resume).  Suspend: suspend_all_solvers sends SIGSTOP to every record of the
\* process map (solver_manager.rs:633-641, 655-659), then the framework stops
\* itself until the OS resumes it.  Resume: resume_all_solvers sends SIGCONT
\* to every record of the process map (672-675).
SignalSuspend ==
    /\ ~program_cancelled
    /\ procs' = SignalSolvers(solver_processes, procs,
                              DOMAIN solver_processes, "SIGSTOP")
    /\ UNCHANGED <<flat, parser, locks, orch, objective_type, pin_yuck, schedVars,
                   solver_processes, current_solvers, available_cores,
                   best_objective, compVars, recvVars, program_cancelled,
                   emitted>>

SignalResume ==
    /\ ~program_cancelled
    /\ procs' = SignalSolvers(solver_processes, procs,
                              DOMAIN solver_processes, "SIGCONT")
    /\ UNCHANGED <<flat, parser, locks, orch, objective_type, pin_yuck, schedVars,
                   solver_processes, current_solvers, available_cores,
                   best_objective, compVars, recvVars, program_cancelled,
                   emitted>>

\* solvers scheduled, suspended and resumed by apply while the OS suspends
\* and resumes the framework
SignalPortfolios == {<<>>, <<SolverInfo("A", 1)>>, <<SolverInfo("B", 1)>>}
InitSignal == InitWith({"Minimize"}, {FALSE})
NextSignal ==
    \/ ApplyStep(SignalPortfolios, {FALSE}, MaxProcs, MaxId)
    \/ TaskStartStep({"ok"})
    \/ TaskWakeStep({"ok"})
    \/ CompileFinishStep({"ok"})
    \/ ProcExitStep
    \/ ExitWatcherStep
    \/ SignalSuspend
    \/ SignalResume
SpecSignal == InitSignal /\ [][NextSignal]_vars

\* waiters of compilations that finish, fail, or are stopped by an apply or
\* cancelled by the program token; the flattener ends (compilation.rs:61-68)
\* and the runtime runs every task that is ready
WaitPortfolios == {<<>>, <<SolverInfo("A", 1)>>, <<SolverInfo("B", 1)>>}
WaitOutcomes == {"ok", "err", "cancelled"}
InitWait == InitWith({"Minimize"}, {FALSE})
NextWait ==
    \/ ApplyStep(WaitPortfolios, BOOLEAN, MaxProcs, MaxId)
    \/ TaskStartStep({"ok"})
    \/ TaskWakeStep({"ok"})
    \/ CompileFinishStep(WaitOutcomes)
    \/ Interrupt
SpecWait ==
    /\ InitWait /\ [][NextWait]_vars
    /\ WF_vars(CompileFinishStep(WaitOutcomes))
    /\ WF_vars(TaskWakeStep({"ok"}))

\* the receiver publishes a better objective (solver_manager.rs:177-196),
\* seen from the solver starts: only best_objective matters to them
BoundArrives(o) ==
    /\ objective_type # "Satisfy"
    /\ is_better(objective_type, best_objective, o)
    /\ best_objective' = Some(o)
    /\ UNCHANGED <<flat, parser, locks, orch, objective_type, pin_yuck,
                   schedVars, solver_processes, current_solvers,
                   available_cores, procs, compVars, recvVars,
                   program_cancelled, emitted>>

\* a start task, its compilation done, chooses the flatfile of its solver
\* command (solver_manager.rs:294-306)
PrepareFlatfile(original, io) ==
    /\ Len(flat) < MaxStarts
    /\ flat' = Append(flat, fzn_final(original, objective_type, best_objective, io))
    /\ UNCHANGED <<parser, locks, orch, objective_type, pin_yuck, schedVars,
                   solver_processes, current_solvers, available_cores,
                   best_objective, procs, compVars, recvVars,
                   program_cancelled, emitted>>

FlatBounds == {7, -8}
InitFlat == InitWith(ObjectiveTypes, {FALSE})
NextFlat ==
    \/ \E o \in FlatBounds : BoundArrives(o)
    \/ \E original \in Flatfiles, io \in IoOutcomes : PrepareFlatfile(original, io)
SpecFlat == InitFlat /\ [][NextFlat]_vars

\* one reader's parser, fed raw lines one at a time
\* (solver_manager.rs:510-528: lines.next_line() then parser.next_line)
Feed(line, keep) ==
    /\ Len(parser.fed) < MaxLines
    /\ \E r \in {next_line(parser, objective_type, line, keep)} :
          parser' = [pending_block |-> r.pending_block,
                     pending_objective |-> r.pending_objective,
                     fed |-> Append(parser.fed, line),
                     outs |-> Append(parser.outs, r.out)]
    /\ UNCHANGED <<flat, locks, orch, objective_type, pin_yuck, schedVars,
                   solver_processes, current_solvers, available_cores,
                   best_objective, procs, compVars, recvVars,
                   program_cancelled, emitted>>

InitParser == InitWith(ObjectiveTypes, {FALSE})
NextParser == \E line \in ParserLines, keep \in BOOLEAN : Feed(line, keep)
SpecParser == InitParser /\ [][NextParser]_vars

(************************** the receiver's contract *************************)
\* the objectives of the solution blocks printed so far, in print order
PrintedObjectives ==
    LET sols == SelectSeq(stdout, LAMBDA l : l.kind = "solution" /\ l.obj # None)
    IN [i \in DOMAIN sols |-> sols[i].obj[1]]

\* the terminal status lines printed so far
StatusLines == SelectSeq(stdout, LAMBDA l : l.kind = "status")

\* o is strictly better than the bound old under objective type t
StrictlyBetter(t, old, o) ==
    \/ old = None
    \/ t = "Minimize" /\ o < old[1]
    \/ t = "Maximize" /\ o > old[1]
    \/ t = "Satisfy"

\* this step is the receiver taking the message msg from the channel
Handles(msg) ==
    /\ ~receiver_done
    /\ chan # <<>>
    /\ Head(chan) = msg
    /\ Len(chan') < Len(chan)

\* a solver has been stopped by the scheduler while the run goes on
SomeSolverStopped == \E p \in Pids : procs[p].os = "killed"

\* C1: the objectives of the solutions printed to stdout never get worse
\* under the run's objective type: never larger than an earlier printed value
\* for Minimize, never smaller for Maximize.
C1_PrintedMonotone ==
    \A i, j \in DOMAIN PrintedObjectives :
        i < j => /\ objective_type = "Minimize"
                      => PrintedObjectives[j] <= PrintedObjectives[i]
                 /\ objective_type = "Maximize"
                      => PrintedObjectives[j] >= PrintedObjectives[i]

\* two solutions are printed in a run in which the scheduler restarted a solver
C1_Witness ==
    /\ Len(PrintedObjectives) >= 2
    /\ SomeSolverStopped
    /\ \E id \in DOMAIN solver_processes : id >= 2

\* C2: when the receiver takes a Solution with objective o, it prints the
\* block and sets the global best to o if o is better than the global best,
\* and otherwise prints nothing and leaves the global best as it is.
C2_SolutionFilter ==
    [][\A o \in Objs :
          Handles(Solution(Some(o))) =>
             IF StrictlyBetter(objective_type, best_objective, o)
             THEN /\ best_objective' = Some(o)
                  /\ stdout' = Append(stdout, SolutionLine(Some(o)))
             ELSE /\ best_objective' = best_objective
                  /\ stdout' = stdout]_vars

\* Minimize: one solver reported 10 and later 8, another reported 7; the
\* receiver has taken all three, printed 10 then 7 and suppressed the 8
C2_Witness ==
    /\ objective_type = "Minimize"
    /\ PrintedObjectives = <<10, 7>>
    /\ emitted = 3 /\ chan = <<>> /\ ~receiver_done
    /\ \E p, q \in Pids : /\ procs[p].local_best = Some(8)
                          /\ procs[q].local_best = Some(7)

\* C3: at most one terminal status line is printed in a run, it is the last
\* line printed, and the receiver leaves its loop either on that line or on a
\* solution without objective, after which no status line is printed.
C3_AtMostOneStatus ==
    /\ Len(StatusLines) <= 1
    /\ Len(StatusLines) = 1
          => receiver_done /\ stdout[Len(stdout)].kind = "status"
    /\ receiver_done /\ Len(StatusLines) = 0
          => stdout # <<>> /\ stdout[Len(stdout)] = SolutionLine(None)

\* one status line is printed and a solver has reported after it
C3_Witness ==
    /\ Len(StatusLines) = 1
    /\ emitted >= 2
    /\ \E p \in Pids : procs[p].reader = "sendfail"

\* C3 as the spec states it: a run whose receiver is done has printed exactly
\* one terminal status line
C3_ExactlyOneStatus == receiver_done => Len(StatusLines) = 1

\* C4: a terminal Status (Optimal, Unsatisfiable, Unbounded) makes the
\* receiver print the wire string, cancel the program and leave its loop, and
\* nothing is printed after it; Status(Unknown) prints nothing, cancels
\* nothing, and the receiver goes on with the next message.
C4_StatusHandling ==
    [][/\ Handles(Status("OptimalSolution"))
            => /\ stdout' = Append(stdout, StatusLine("=========="))
               /\ program_cancelled' /\ receiver_done'
       /\ Handles(Status("Unsatisfiable"))
            => /\ stdout' = Append(stdout, StatusLine("=====UNSATISFIABLE====="))
               /\ program_cancelled' /\ receiver_done'
       /\ Handles(Status("Unbounded"))
            => /\ stdout' = Append(stdout, StatusLine("=====UNBOUNDED====="))
               /\ program_cancelled' /\ receiver_done'
       /\ Handles(Status("Unknown"))
            => /\ stdout' = stdout
               /\ program_cancelled' = program_cancelled
               /\ ~receiver_done'
               /\ chan' = Tail(chan)
       /\ receiver_done => stdout' = stdout /\ receiver_done']_vars

\* a satisfaction run: the receiver has taken a Status(Unknown), printed
\* nothing and cancelled nothing, and goes on with a terminal status
C4_Witness ==
    /\ objective_type = "Satisfy"
    /\ ~receiver_done /\ ~program_cancelled
    /\ emitted = 2
    /\ stdout = <<>>
    /\ chan = <<Status("Unbounded")>>

\* C5: in a satisfaction run the receiver prints the first solution it takes,
\* cancels the program and leaves its loop; nothing is printed afterwards.
C5_SatisfyFirstSolution ==
    [][/\ Handles(Solution(None))
            => /\ stdout' = Append(stdout, SolutionLine(None))
               /\ program_cancelled' /\ receiver_done'
       /\ (receiver_done /\ objective_type = "Satisfy")
            => stdout' = stdout /\ receiver_done']_vars

\* a satisfaction run printed its one solution and a solver reported after it
C5_Witness ==
    /\ objective_type = "Satisfy"
    /\ stdout = <<SolutionLine(None)>>
    /\ receiver_done /\ program_cancelled
    /\ \E p \in Pids : procs[p].reader = "sendfail"

\* C6: the published bound is only ever replaced by a strictly better value
\* and is never reset to none.
C6_BoundNeverRegresses ==
    [][best_objective' # best_objective
          => /\ best_objective' # None
             /\ \/ best_objective = None
                \/ objective_type = "Minimize"
                     /\ best_objective'[1] < best_objective[1]
                \/ objective_type = "Maximize"
                     /\ best_objective'[1] > best_objective[1]]_vars

\* the bound was tightened twice while a restarted solver, started with the
\* bound injected, is in the process map next to a stopped one
C6_Witness ==
    /\ best_objective = Some(7)
    /\ Len(PrintedObjectives) = 2
    /\ SomeSolverStopped
    /\ \E id \in DOMAIN solver_processes :
          id >= 2 /\ solver_processes[id].best_objective # None

(************************* the scheduler's invariants ***********************)
\* the slots the scheduler tracks
Tracked == (DOMAIN running_solvers) \cup DOMAIN suspended_solvers

\* this step is a call of apply with these arguments
ApplyCall(pf, ro, su) == \E so \in BOOLEAN : Apply(pf, so, ro, su)

\* this step is a pass of the memory enforcer
TickCall ==
    \E used \in Useds, total \in Totals :
      \E rss \in [{solver_processes[id].pid :
                     id \in Measured(running_solvers) \cup Measured(suspended_solvers)}
                  -> Rss] :
         \E sOrder \in SeqOfSet(Measured(suspended_solvers)),
            rOrder \in SeqOfSet(Measured(running_solvers)) :
               MemTick(used, total, rss, sOrder, rOrder)

\* a schedule as the map id -> info
ScheduleMap(schedule) ==
    [id \in Ids(schedule) |->
        (CHOOSE e \in Range(schedule) : e.id = id).info]

\* C7: no slot id is in both running and suspended, whatever apply calls and
\* memory-enforcer ticks have happened.
C7_RunningSuspendedDisjoint ==
    (DOMAIN running_solvers) \cap (DOMAIN suspended_solvers) = {}

\* slots in both maps: one solver runs while another is suspended
C7_Witness ==
    /\ \E id \in DOMAIN running_solvers :
          id \in DOMAIN solver_processes
          /\ procs[solver_processes[id].pid].os = "running"
    /\ \E id \in DOMAIN suspended_solvers :
          id \in DOMAIN solver_processes
          /\ procs[solver_processes[id].pid].os = "stopped"

C9_CoresPartition ==
    pin_yuck =>
        /\ \A p, q \in Pids : p # q => procs[p].alloc \cap procs[q].alloc = {}
        /\ \A p \in Pids : procs[p].alloc \cap available_cores = {}
        /\ UNION {procs[p].alloc : p \in Pids} \cup available_cores = AllCores
        /\ \A p \in Pids : procs[p].alloc # {} => procs[p].phase = "live"

\* one solver holds a core while the start of another failed in the pinning
\* for want of cores, after its record was put in the process map
C9_Witness ==
    /\ pin_yuck
    /\ \E p, q \in Pids :
          /\ procs[p].alloc # {} /\ procs[p].phase = "live"
          /\ procs[q].phase = "done" /\ procs[q].os = "running"
          /\ procs[q].id \in DOMAIN solver_processes
          /\ solver_processes[procs[q].id].pid = q

\* C10: when apply returns, running is exactly the schedule that Step B
\* produced for the portfolio, and suspended holds the slots that were tracked
\* and active before, were not restarted in Step A and are not in the schedule.
C10_RunningIsSchedule ==
    [][\A pf \in Portfolios :
         \A ro \in SeqOfSet(DOMAIN running_solvers),
            su \in SeqOfSet(DOMAIN suspended_solvers) :
               ApplyCall(pf, ro, su) =>
                  /\ running_solvers' = ScheduleMap(ApplyPlan(pf, ro, su).schedule)
                  /\ DOMAIN suspended_solvers' =
                        (Tracked \cap current_solvers)
                        \ (to_restart \cup Ids(ApplyPlan(pf, ro, su).schedule))]_vars

\* a slot whose start failed is still in running, next to a suspended slot
\* that the last portfolio did not name
C10_Witness ==
    /\ \E id \in DOMAIN running_solvers : id \notin current_solvers
    /\ suspended_solvers # EmptyMap

\* C10 as the spec states it: when apply returns, every slot in running or
\* suspended is an element of the schedule of Step B
C10_TrackedWithinSchedule ==
    [][\A pf \in Portfolios :
         \A ro \in SeqOfSet(DOMAIN running_solvers),
            su \in SeqOfSet(DOMAIN suspended_solvers) :
               ApplyCall(pf, ro, su) =>
                  Tracked' \subseteq Ids(ApplyPlan(pf, ro, su).schedule)]_vars

(**************************** slot ids (Step B) *****************************)
\* the SolverInfo the scheduler holds under a tracked id
StoredInfo(id) ==
    IF id \in DOMAIN running_solvers THEN running_solvers[id]
    ELSE suspended_solvers[id]

\* the elements of a schedule whose id was minted by this call
Minted(schedule) == {i \in DOMAIN schedule : schedule[i].id >= next_solver_id}

\* C11: across an apply call next_id never decreases and grows by exactly the
\* number of ids the call mints, each minted id lying between the old and the
\* new next_id; an id that Step B reuses for a portfolio entry was tracked
\* under a SolverInfo equal to that entry in name, cores and objective.
C11_IdsMonotoneReuseEqual ==
    [][\A pf \in Portfolios :
         \A ro \in SeqOfSet(DOMAIN running_solvers),
            su \in SeqOfSet(DOMAIN suspended_solvers) :
               ApplyCall(pf, ro, su) =>
                  \E plan \in {ApplyPlan(pf, ro, su)} :
                     /\ Len(plan.schedule) = Len(pf)
                     /\ next_solver_id' =
                           next_solver_id + Cardinality(Minted(plan.schedule))
                     /\ \A i \in DOMAIN pf :
                           /\ plan.schedule[i].info = pf[i]
                           /\ plan.schedule[i].id < next_solver_id'
                           /\ i \notin Minted(plan.schedule) =>
                                 /\ plan.schedule[i].id \in Tracked
                                 /\ StoredInfo(plan.schedule[i].id).name = pf[i].name
                                 /\ StoredInfo(plan.schedule[i].id).cores = pf[i].cores
                                 /\ StoredInfo(plan.schedule[i].id).objective
                                       = pf[i].objective]_vars

\* two ids were minted and then slot 0 was reused for A while slot 1, holding
\* B, went to suspended
C11_Witness ==
    /\ next_solver_id = 2
    /\ DOMAIN running_solvers = {0} /\ running_solvers[0] = SolverInfo("A", 2)
    /\ DOMAIN suspended_solvers = {1} /\ suspended_solvers[1] = SolverInfo("B", 1)

\* C11 as the spec states it: every apply call strictly increases next_id
C11_NextIdStrictlyIncreasing ==
    [][(\E pf \in Portfolios :
          \E ro \in SeqOfSet(DOMAIN running_solvers),
             su \in SeqOfSet(DOMAIN suspended_solvers) : ApplyCall(pf, ro, su))
       => next_solver_id' > next_solver_id]_vars

(******************************* idempotence ********************************)
\* how often info occurs in a portfolio, and among the running slots
CountIn(pf, info) == Cardinality({i \in DOMAIN pf : pf[i] = info})
CountRunning(info) ==
    Cardinality({id \in DOMAIN running_solvers : running_solvers[id] = info})

\* running holds exactly the entries of pf: pf is the portfolio in force
InForce(pf) == \A info \in Infos : CountIn(pf, info) = CountRunning(info)

\* the bound apply would read is the one the last apply saw
BoundUnchanged == best_objective = prev_objective

\* this apply call changes nothing and signals, stops and starts nothing
NoOp(plan) ==
    /\ plan.changes.to_start = <<>>
    /\ plan.changes.to_resume = <<>>
    /\ plan.changes.to_suspend = {}
    /\ plan.started = <<>>
    /\ to_restart = {}
    /\ UNCHANGED <<running_solvers, suspended_solvers, next_solver_id,
                   solver_processes, procs, current_solvers>>

ProcOf(id) == solver_processes[id].pid

\* no other slot that Step B can match holds the SolverInfo of slot id
OnlyHolder(id) ==
    \A other \in Tracked \ (to_restart \cup {id}) :
        StoredInfo(other) # StoredInfo(id)

C14_ScenarioAlways ==
    [][/\ (/\ \E ro \in SeqOfSet(DOMAIN running_solvers),
                 su \in SeqOfSet(DOMAIN suspended_solvers) :
                    ApplyCall(<<SolverInfo("A", 2), SolverInfo("B", 1)>>, ro, su)
           /\ running_solvers = (0 :> SolverInfo("A", 2))
           /\ suspended_solvers = EmptyMap)
          => running_solvers' = (0 :> SolverInfo("A", 2))
                                @@ (next_solver_id :> SolverInfo("B", 1))
       /\ (/\ \E ro \in SeqOfSet(DOMAIN running_solvers),
                 su \in SeqOfSet(DOMAIN suspended_solvers) :
                    ApplyCall(<<SolverInfo("B", 1)>>, ro, su)
           /\ running_solvers = (0 :> SolverInfo("A", 2))
                                @@ (1 :> SolverInfo("B", 1)))
          => /\ running_solvers' = (1 :> SolverInfo("B", 1))
             /\ \A p \in Pids :
                   procs[p].id = 0 =>
                      /\ procs'[p].phase \notin {"new", "wait", "insert"}
                      /\ procs'[p].os # "running"]_vars

(************************ bound-driven restart (Step A) *********************)
\* the recorded solver id is strictly behind the global best
Behind(id) ==
    /\ best_objective # None
    /\ \/ solver_processes[id].best_objective = None
       \/ objective_type = "Minimize"
             /\ best_objective[1] < solver_processes[id].best_objective[1]
       \/ objective_type = "Maximize"
             /\ best_objective[1] > solver_processes[id].best_objective[1]
       \/ objective_type = "Satisfy"

\* the record of id is gone and its process is no longer executing or stopped
StoppedNow(id) ==
    /\ id \notin DOMAIN solver_processes'
    /\ procs'[ProcOf(id)].os \notin {"running", "stopped"}

\* the only other way apply stops a solver: the escalation of a failed suspend
Escalated(plan, id) == id \in plan.changes.to_suspend /\ plan.suspendErr # {}

\* C15: an apply that reads a global best different from prev_best sets
\* prev_best to it, stops every recorded solver that is behind it and removes
\* it from running and suspended, so that its portfolio entry is started under
\* a fresh id, and stops no other solver on account of the bound; an apply
\* that reads the bound it saw last stops no solver on account of the bound.
C15_BoundDrivenRestart ==
    [][\A pf \in RecvPortfolios :
         \A ro \in SeqOfSet(DOMAIN running_solvers),
            su \in SeqOfSet(DOMAIN suspended_solvers) :
               ApplyCall(pf, ro, su) =>
                  \E plan \in {ApplyPlan(pf, ro, su)} :
                     /\ prev_objective' = best_objective
                     /\ \A id \in DOMAIN solver_processes :
                          IF best_objective # prev_objective /\ Behind(id)
                          THEN /\ StoppedNow(id)
                               /\ id \notin Tracked'
                               /\ (/\ id \in Tracked
                                   /\ StoredInfo(id) \in Range(pf)
                                   /\ OnlyHolder(id)
                                   /\ plan.ok)
                                  => \E e \in Range(plan.started) :
                                        /\ e.info = StoredInfo(id)
                                        /\ e.id >= next_solver_id
                          ELSE \/ Escalated(plan, id)
                               \/ /\ id \in DOMAIN solver_processes'
                                  /\ solver_processes'[id] = solver_processes[id]
                                  /\ procs'[ProcOf(id)].os
                                        \in {procs[ProcOf(id)].os,
                                             "running", "stopped"}]_vars

\* a solver was restarted for being behind, and the bound an apply has seen is
\* 7 while a running solver whose own best is 8 is still in the process map
C15_Witness ==
    /\ objective_type = "Minimize"
    /\ best_objective = Some(7) /\ prev_objective = Some(7)
    /\ SomeSolverStopped
    /\ \E id \in DOMAIN running_solvers \cap DOMAIN solver_processes :
          /\ solver_processes[id].best_objective = Some(8)
          /\ procs[ProcOf(id)].os = "running"

(***************************** compilations ********************************)
\* the compilation tasks of name whose token is not cancelled and that have
\* not sent their result
InFlight(T, name) ==
    {k \in DOMAIN T : k[1] = name /\ T[k].st = "run" /\ ~T[k].stopped}

\* start task p makes its start and wait_for calls in this step
StartCall(p) ==
    /\ p \in Pids
    /\ procs[p].phase = "new"
    /\ procs'[p].phase # "new"

\* C16: for every name at most one compilation whose token is not cancelled
\* is running, every earlier compilation task of the name was cancelled by a
\* stop (so the flattener is invoked once, plus once per stop), and a start
\* for a name whose compilation is in flight or has finished changes nothing
\* in the compilation manager, while a start for a name without entry spawns
\* exactly one task.
C16_OneCompilationPerName ==
    [][/\ \A n \in Names :
            /\ Cardinality(InFlight(compTasks', n)) <= 1
            /\ \A k \in DOMAIN compTasks' :
                  (k[1] = n /\ k[2] < compilations'[n].gen) => compTasks'[k].stopped
            /\ \A k \in DOMAIN compTasks' : k[1] = n => k[2] <= compilations'[n].gen
       /\ \A p \in Pids :
            StartCall(p) =>
               IF compilations[procs[p].name].st # "NotStarted"
               THEN UNCHANGED compVars
               ELSE /\ Cardinality(DOMAIN compTasks') = Cardinality(DOMAIN compTasks) + 1
                    /\ compilations'[procs[p].name].st = "Started"]_vars

\* two start tasks of the same solver name wait for the one compilation task
\* of that name, which is still running
C16_Witness ==
    \E p \in Pids, q \in Pids :
        /\ p # q
        /\ procs[p].name = procs[q].name
        /\ procs[p].phase = "wait" /\ procs[q].phase = "wait"
        /\ procs[p].gen = procs[q].gen
        /\ compTasks[<<procs[p].name, procs[p].gen>>].st = "run"
        /\ Cardinality({k \in DOMAIN compTasks : k[1] = procs[p].name}) = 1

\* the compilation started last for name was cancelled by a stop and the name
\* has not been started since
StoppedLast(C, T, name) ==
    /\ C[name].gen > 0
    /\ T[<<name, C[name].gen>>].stopped

\* C17: once the compilation started for X has been stopped before it
\* finished, X has no entry (wait_for yields NotStarted) until the next start
\* of X; that start spawns a fresh compilation task; and no task of an earlier
\* start of X publishes a result under X.
C17_StopThenFreshStart ==
    [][/\ \A n \in Names :
            StoppedLast(compilations', compTasks', n)
               => compilations'[n].st = "NotStarted"
       /\ \A p \in Pids :
            (StartCall(p) /\ StoppedLast(compilations, compTasks, procs[p].name))
               => /\ compilations'[procs[p].name].gen = compilations[procs[p].name].gen + 1
                  /\ <<procs[p].name, compilations'[procs[p].name].gen>>
                        \in DOMAIN compTasks' \ DOMAIN compTasks
       /\ \A k \in DOMAIN compTasks :
            (compTasks[k].st = "run" /\ compTasks'[k].st # "run"
                /\ k[2] < compilations[k[1]].gen)
               => compilations'[k[1]] = compilations[k[1]]]_vars

\* the compilation task start task p waits for
Awaited(p) == <<procs[p].name, procs[p].gen>>

C19_CancelledStartLeavesNothing ==
    [][\A p \in Pids :
         (/\ TokenCancelled(p)
          /\ procs[p].phase \in {"wait", "insert", "live"}
          /\ procs'[p].phase = "done")
            => /\ procs'[p].os \notin {"running", "stopped"}
               /\ ~\E id \in DOMAIN solver_processes' :
                     solver_processes'[id].pid = p]_vars

(***************************** record ownership ****************************)
\* the record under id leaves the process map in this step: it is removed, or
\* replaced by the record of another start
Leaves(id) ==
    /\ id \in DOMAIN solver_processes
    /\ \/ id \notin DOMAIN solver_processes'
       \/ solver_processes'[id].pid # solver_processes[id].pid

TickOf(used, total) ==
    \E rss \in [{solver_processes[id].pid :
                   id \in Measured(running_solvers) \cup Measured(suspended_solvers)}
                -> Rss] :
       \E sOrder \in SeqOfSet(Measured(suspended_solvers)),
          rOrder \in SeqOfSet(Measured(running_solvers)) :
             MemTick(used, total, rss, sOrder, rOrder)

\* C21: a tick that samples used/total <= threshold stops no solver (the
\* process map and every process stay as they are) and takes out of running
\* and suspended exactly the ids that are no longer in the active set.
C21_TickUnderThreshold ==
    [][\A used \in Useds, total \in Totals :
         (TickOf(used, total) /\ used * 10 <= total * memory_threshold)
            => /\ solver_processes' = solver_processes
               /\ procs' = procs
               /\ running_solvers' =
                     [id \in (DOMAIN running_solvers) \cap current_solvers
                         |-> running_solvers[id]]
               /\ suspended_solvers' =
                     [id \in (DOMAIN suspended_solvers) \cap current_solvers
                         |-> suspended_solvers[id]]]_vars

\* a slot whose start task ended without ever being stopped is tracked no
\* more, while another slot is tracked as running with a live process that a
\* tick measures
C21_Witness ==
    /\ \E p \in Pids :
          /\ procs[p].phase = "done" /\ procs[p].drop = <<>>
          /\ procs[p].id \notin Tracked \cup current_solvers
    /\ \E id \in Measured(running_solvers) :
          procs[solver_processes[id].pid].os = "running"

\* C21 as the spec states it: a tick that samples used/total <= threshold
\* leaves running and suspended unchanged and stops no solver
C21_TickUnderThresholdDoesNothing ==
    [][\A used \in Useds, total \in Totals :
         (TickOf(used, total) /\ used * 10 <= total * memory_threshold)
            => /\ solver_processes' = solver_processes
               /\ procs' = procs
               /\ running_solvers' = running_solvers
               /\ suspended_solvers' = suspended_solvers]_vars

\* the memory a tick attributes to the solvers of ids (nothing for an id
\* without record)
RECURSIVE SumMem(_, _)
SumMem(rss, ids) ==
    IF ids = {} THEN 0
    ELSE LET id == CHOOSE x \in ids : TRUE
         IN (IF id \in DOMAIN solver_processes THEN MemOf(rss, id) ELSE 0)
            + SumMem(rss, ids \ {id})

\* the ids of f that are in the active set: what a tick's reconcile keeps
Kept(f) == (DOMAIN f) \cap current_solvers

\* the solver of id is stopped by this step
Evicted(id) ==
    /\ id \in DOMAIN solver_processes
    /\ id \notin DOMAIN solver_processes'
    /\ procs'[solver_processes[id].pid].os \notin {"running", "stopped"}

\* what C22 says of a tick over the threshold, S being the suspended solvers
\* the tick is to stop before it may touch a running one
EvictionOrder(used, total, rss, S) ==
    \E goneS \in {Kept(suspended_solvers) \ DOMAIN suspended_solvers'},
       goneR \in {Kept(running_solvers) \ DOMAIN running_solvers'} :
       /\ \A id \in goneS \cup goneR : Evicted(id)
       /\ \A id \in DOMAIN solver_processes \ (goneS \cup goneR) : ~Evicted(id)
       /\ goneS \subseteq S
       \* largest first
       /\ \A i \in goneS, j \in S \ goneS : MemOf(rss, i) >= MemOf(rss, j)
       \* no further than needed
       /\ \A i \in goneS :
             (\A j \in goneS : MemOf(rss, j) >= MemOf(rss, i))
                => is_over_threshold(used - SumMem(rss, goneS \ {i}), total,
                                     memory_threshold)
       /\ goneS # S => ~is_over_threshold(used - SumMem(rss, goneS), total,
                                          memory_threshold)
       \* running solvers only after every suspended one
       /\ goneR # {} => /\ goneS = S
                        /\ is_over_threshold(used - SumMem(rss, S), total,
                                             memory_threshold)
       \* with nothing suspended left and still over, running-eviction
       /\ (goneS = S /\ Measured(running_solvers) # {}
             /\ is_over_threshold(used - SumMem(rss, S), total, memory_threshold))
            => goneR # {}
       /\ (Tracked = {}) => UNCHANGED vars

\* C22: a tick over the threshold stops suspended solvers largest first and
\* no further than needed, stops a running solver only when usage is still
\* over the threshold after every suspended solver was stopped, evicts running
\* solvers when none is suspended, and changes nothing when both sets are empty.
C22_SuspendedFirst ==
    [][\A used \in Useds, total \in Totals :
         is_over_threshold(used, total, memory_threshold) =>
            \A rss \in [{solver_processes[id].pid :
                           id \in Measured(running_solvers)
                                  \cup Measured(suspended_solvers)} -> Rss] :
               \A sOrder \in SeqOfSet(Measured(suspended_solvers)),
                  rOrder \in SeqOfSet(Measured(running_solvers)) :
                     MemTick(used, total, rss, sOrder, rOrder)
                        => EvictionOrder(used, total, rss,
                                         Kept(suspended_solvers))]_vars

\* the running solvers a tick ranks whose RSS per core exceeds the share
\* total / total cores * threshold; the cores are those of every running slot
Unfair(total, rss) ==
    {id \in Measured(running_solvers) :
        MemOf(rss, id) * 10 * SumCores(running_solvers, Kept(running_solvers))
           > total * memory_threshold * running_solvers[id].cores}

\* what C23 says of a tick that goes into running-eviction with the estimate
\* usedR: goneR are the running solvers it stops
RunningEviction(usedR, total, rss, goneR) ==
    \E unfair \in {Unfair(total, rss)} :
       /\ goneR \subseteq Measured(running_solvers)
       /\ \A id \in goneR : Evicted(id)
       /\ \A id \in Measured(running_solvers) \ goneR : ~Evicted(id)
       \* the unfair share rule, whatever the usage
       /\ unfair \subseteq goneR
       \* then largest first
       /\ \A i \in goneR \ unfair, j \in Measured(running_solvers) \ goneR :
             MemOf(rss, i) >= MemOf(rss, j)
       \* only while over the threshold
       /\ \A i \in goneR \ unfair :
             (\A j \in goneR \ unfair : MemOf(rss, j) >= MemOf(rss, i))
                => is_over_threshold(usedR - SumMem(rss, goneR \ {i}), total,
                                     memory_threshold)
       /\ goneR # Measured(running_solvers)
             => ~is_over_threshold(usedR - SumMem(rss, goneR), total,
                                   memory_threshold)

\* C23: when a tick is still over the threshold after the suspended solvers,
\* it stops every running solver whose RSS per core exceeds the per-core
\* threshold, whatever the usage has become, and then the other running
\* solvers largest first and only while the usage is over the threshold.
C23_UnfairShare ==
    [][\A used \in MemUseds, total \in Totals :
         \A rss \in [{solver_processes[id].pid :
                        id \in Measured(running_solvers)
                               \cup Measured(suspended_solvers)} -> MemRss] :
            \A sOrder \in SeqOfSet(Measured(suspended_solvers)),
               rOrder \in SeqOfSet(Measured(running_solvers)) :
                  (/\ MemTick(used, total, rss, sOrder, rOrder)
                   /\ is_over_threshold(
                         used - SumMem(rss, Measured(suspended_solvers)),
                         total, memory_threshold))
                     => RunningEviction(
                           used - SumMem(rss, Measured(suspended_solvers)),
                           total, rss,
                           Kept(running_solvers) \ DOMAIN running_solvers')]_vars

\* a tick stopped both running solvers of a portfolio of two, of which at
\* least the first one alone brought the usage under the threshold: both are
\* killed and untracked before their exit watchers have run
C23_Witness ==
    /\ Tracked = {}
    /\ Cardinality(current_solvers) = 2
    /\ \A id \in current_solvers :
          \E p \in Pids : /\ procs[p].id = id
                          /\ procs[p].os = "killed" /\ procs[p].phase = "live"

(***************************** failures in apply ***************************)
\* the start of task p fails in this step before a solver was spawned
\* (compilation error, cancelled wait, failed spawn of the solver)
StartFails(p) ==
    /\ procs[p].phase \in {"new", "wait", "insert"}
    /\ procs'[p].phase = "done"
    /\ procs'[p].os = "none"

\* every start task of the run has failed without spawning a solver
AllStartsFailed ==
    /\ Pids # {}
    /\ \A p \in Pids : procs[p].phase = "done" /\ procs[p].os = "none"

\* C24: a start that fails leaves the other start tasks and the scheduler's
\* state as they are, and once every slot has failed to start the run is over
\* (SolverFailure): no further apply of the restart loop starts a solver.
C24_StartFailureIsFatalWhenTotal ==
    [][/\ \A p \in Pids :
            StartFails(p) =>
               /\ \A q \in Pids \ {p} : procs'[q] = procs[q]
               /\ UNCHANGED schedVars
       /\ AllStartsFailed =>
             ~\E pf \in Portfolios :
                 \E ro \in SeqOfSet(DOMAIN running_solvers),
                    su \in SeqOfSet(DOMAIN suspended_solvers) :
                       ApplyCall(pf, ro, su) /\ Len(procs') > Len(procs)]_vars

\* the process of the slot id has exited and its record is still in the map
Exited(id) ==
    /\ id \in DOMAIN solver_processes
    /\ procs[solver_processes[id].pid].os = "dead"

\* the slot id has a record and a process that can be signalled
Alive(id) ==
    /\ id \in DOMAIN solver_processes
    /\ procs[solver_processes[id].pid].os \in {"running", "stopped"}

\* C25: an apply in which the only signals that fail are aimed at slots whose
\* process has exited does not return early: every other slot it is to
\* suspend is stopped by SIGSTOP and keeps its record, every other slot it is
\* to resume runs, and every slot it is to start gets a start task.
C25_ExitedSlotIsNonFatal ==
    [][\A pf \in Portfolios :
         \A ro \in SeqOfSet(DOMAIN running_solvers),
            su \in SeqOfSet(DOMAIN suspended_solvers) :
               ApplyCall(pf, ro, su) =>
                  \E plan \in {ApplyPlan(pf, ro, su)} :
                     (\A id \in plan.suspendErr \cup plan.resumeErr : Exited(id))
                        => /\ plan.ok
                           /\ \A id \in plan.changes.to_suspend :
                                 Alive(id) =>
                                    /\ id \in DOMAIN solver_processes'
                                    /\ procs'[solver_processes[id].pid].os = "stopped"
                           /\ \A id \in Range(plan.changes.to_resume) :
                                 Alive(id) =>
                                    /\ id \in DOMAIN solver_processes'
                                    /\ procs'[solver_processes[id].pid].os = "running"
                           /\ \A i \in DOMAIN plan.changes.to_start :
                                 \E p \in DOMAIN procs' \ DOMAIN procs :
                                    procs'[p].id = plan.changes.to_start[i].id]_vars

\* the step creates a start task for the slot id
StartedAfresh(id) == \E p \in DOMAIN procs' \ DOMAIN procs : procs'[p].id = id

\* C26: in an apply that resumes slots, a slot whose SIGCONT failed is started
\* afresh, and a slot whose SIGCONT succeeded is resumed and gets no second
\* start.
C26_OnlyFailedResumeRestarts ==
    [][\A pf \in Portfolios :
         \A ro \in SeqOfSet(DOMAIN running_solvers),
            su \in SeqOfSet(DOMAIN suspended_solvers) :
               ApplyCall(pf, ro, su) =>
                  \E plan \in {ApplyPlan(pf, ro, su)} :
                     plan.ok =>
                        \A id \in Range(plan.changes.to_resume) :
                           IF id \in plan.resumeErr
                           THEN StartedAfresh(id)
                           ELSE /\ ~StartedAfresh(id)
                                /\ procs'[solver_processes'[id].pid].os = "running"]_vars

(******************************* the end of a run ***************************)
\* C27: once the program token is cancelled, eventually no solver, rewriter
\* or flattener process of the run is alive and the process map is empty.
C27_CancelLeavesNoChild ==
    program_cancelled ~> (DOMAIN solver_processes = {} /\ ~ChildAlive)

(***************************** start with an advisor ************************)
\* C28: the timeout of the feature extraction is at least the static runtime
\* and is enforced (the clock does not pass it with the extraction pending);
\* an extraction cut off by it selects the timeout portfolio; and no portfolio
\* is selected, nor the restart loop started, before the static runtime has
\* elapsed since start_with_ai began the static apply.
C28_FeatureTimeoutAndStaticRuntime ==
    orch.phase # "idle" =>
       /\ orch.Tf >= orch.Ts
       /\ orch.now > orch.Tf => orch.features_result # "pending"
       /\ (orch.features_result = "elapsed" /\ orch.phase \in {"chosen", "loop"})
             => orch.schedule = TimeoutPortfolio
       /\ orch.phase \in {"chosen", "loop"} => orch.now >= orch.Ts
       /\ orch.phase = "loop" => orch.loop_at >= orch.Ts

\* the features arrived within the timeout and the restart loop started with
\* the advisor's portfolio when the static runtime of 2 s had elapsed
C28_Witness ==
    /\ orch.phase = "loop"
    /\ orch.features_result = "features"
    /\ orch.schedule = AdvisorPortfolio
    /\ orch.Ts = 2 /\ orch.Tf = 3
    /\ orch.loop_at = 2

\* C29: the advisor's portfolio is selected exactly when the extraction
\* delivered features, and whenever it did not (timeout, failed flattening,
\* failed extractor) start_with_ai goes on with the timeout portfolio.
C29_TimeoutPortfolioOtherwise ==
    /\ orch.phase \in {"chosen", "loop"}
          => (orch.schedule = AdvisorPortfolio <=> orch.features_result = "features")
    /\ (/\ orch.features_result \in {"elapsed", "flatten_err", "extractor_err"}
        /\ orch.phase \notin {"select", "inner"}
        /\ ~program_cancelled)
          => /\ orch.phase \in {"chosen", "loop"}
             /\ orch.schedule = TimeoutPortfolio

(********************************* lock order *******************************)
Rank(l) == IF l = "state" THEN 0 ELSE IF l = "best_objective" THEN 2 ELSE 1
HeldBy(t) == {l \in Locks : locks.owner[l] = t \/ t \in locks.readers[l]}
Wants(t) == NextOp(t).op \in {"lock", "read", "write"}
Blocked(t) == Wants(t) /\ ~CanTake(t)
\* the tasks that have to move before t gets the lock it waits for
Blockers(t) ==
    LET o == NextOp(t) IN
       ({locks.owner[o.on]} \cap Tasks)
       \cup (IF o.op = "write" THEN locks.readers[o.on] ELSE {})
       \cup (IF o.op = "read" THEN {w \in Tasks : NextOp(w) = Write(o.on)} ELSE {})
Deadlocked(D) == D # {} /\ \A t \in D : Blocked(t) /\ Blockers(t) \cap D # {}

\* C30: a task that asks for a lock holds only locks that come earlier in the
\* order scheduler state, solver-manager locks, global best (so none asks for
\* the scheduler's lock with a solver-manager lock in hand), and no set of
\* tasks is deadlocked, each waiting for a lock that another one of the set
\* has to give up.
C30_LockOrderNoDeadlock ==
    /\ \A t \in Tasks :
          Wants(t) => \A h \in HeldBy(t) : Rank(h) < Rank(NextOp(t).on)
    /\ \A D \in SUBSET Tasks : ~Deadlocked(D)

\* apply holds the scheduler's lock and waits for the process map, which the
\* exit watcher holds, while the memory enforcer waits for the scheduler's lock
C30_Witness ==
    /\ locks.owner["state"] = "apply"
    /\ locks.owner["solver_processes"] = "exit_watcher"
    /\ NextOp("apply") = Lock("solver_processes")
    /\ NextOp("memory_enforcer_loop") = Lock("state")
    /\ Blocked("apply") /\ Blocked("memory_enforcer_loop")

(****************************** the line parser *****************************)
\* The terminators fed so far, and for a terminator at j the lines since the
\* terminator before it: their last objective and the lines of their block.
Terminators == {j \in 1 .. Len(parser.fed) : parser.fed[j] = TerminatorLine}
SegStart(j) ==
    LET before == {i \in Terminators : i < j}
    IN IF before = {} THEN 0
       ELSE CHOOSE i \in before : \A k \in before : k <= i
Seg(j) == (SegStart(j) + 1) .. (j - 1)
PlainSeg(j) == \A k \in Seg(j) : ~IsStatusLine(parser.fed[k])
ObjIdx(j) == {k \in Seg(j) : IsObjectiveLine(objective_type, parser.fed[k])}
LastObjective(j) ==
    IF ObjIdx(j) = {} THEN None
    ELSE parser.fed[CHOOSE k \in ObjIdx(j) : \A m \in ObjIdx(j) : m <= k].int
SegBlock(j) ==
    SelectSeq(SubSeq(parser.fed, SegStart(j) + 1, j - 1),
              LAMBDA l : ~IsObjectiveLine(objective_type, l))
CleanBefore(j) ==
    SegStart(j) = 0 \/ parser.outs[SegStart(j)].kind = "Solution"
IsSuffix(s, t) ==
    /\ Len(s) <= Len(t)
    /\ SubSeq(t, Len(t) - Len(s) + 1, Len(t)) = s

\* C31: objective and content lines followed by one terminator give no event
\* before the terminator and, at the terminator, exactly one Solution with the
\* last objective fed and the accumulated block, or MissingObjective when the
\* type is not Satisfy and no objective line was fed; this holds again for the
\* lines fed after such an error.
C31_TerminatorEmitsLastObjective ==
    \A j \in Terminators :
        PlainSeg(j) =>
            /\ \A k \in Seg(j) : parser.outs[k] = NoEvent
            /\ IF objective_type # "Satisfy" /\ LastObjective(j) = None
               THEN parser.outs[j] = MissingObjective
               ELSE /\ parser.outs[j].kind = "Solution"
                    /\ parser.outs[j].objective = LastObjective(j)
                    /\ IsSuffix(SegBlock(j), parser.outs[j].block)
                    /\ CleanBefore(j) => parser.outs[j].block = SegBlock(j)

\* a terminator failed with MissingObjective, and a later terminator, after
\* two objective lines and a content line, emitted the later objective
C31_Witness ==
    /\ objective_type = "Minimize"
    /\ \E i \in Terminators, j \in Terminators :
          /\ SegStart(j) = i
          /\ parser.outs[i] = MissingObjective
          /\ Cardinality({parser.fed[k].int : k \in ObjIdx(j)}) = 2
          /\ parser.outs[j].kind = "Solution"
          /\ parser.outs[j].objective = LastObjective(j)

(************************ restarts and the exit watcher *********************)
\* the exit watcher of start task p finishes in this step
\* (solver_manager.rs:455-485)
WatcherEnds(p) == procs[p].phase = "live" /\ procs'[p].phase = "done"

\* C32: when a slot was restarted under an id whose earlier process still had
\* its exit watcher, that watcher, when it ends, leaves the newer record of
\* the id in the process map and the id in the active set.
C32_OldWatcherKeepsNewRecord ==
    [][\A p \in Pids :
          LET id == procs[p].id
          IN (/\ WatcherEnds(p)
              /\ id \in DOMAIN solver_processes
              /\ solver_processes[id].pid # p)
             => /\ id \in DOMAIN solver_processes'
                /\ solver_processes'[id] = solver_processes[id]
                /\ id \in current_solvers => id \in current_solvers']_vars

(*************************** suspended means stopped ************************)
\* C33: no solver process of a slot in suspended_solvers is executing, in
\* every reachable state: also after the OS has suspended and resumed the
\* framework, and for a slot suspended while its compilation was pending.
C33_SuspendedIsStopped ==
    \A id \in DOMAIN suspended_solvers :
        \A p \in Pids : procs[p].id = id => procs[p].os # "running"

(******************************* failed pinning *****************************)
\* start task p spawns its solver pipeline in this step and binding it to
\* cores fails (solver_manager.rs:349-361)
PinFails(p) ==
    /\ pin_yuck
    /\ TaskStart(p, "ok") \/ TaskWake(p, "ok")
    /\ procs[p].os = "none" /\ procs'[p].os # "none"
    /\ procs'[p].phase = "done"

\* C34: when binding a newly spawned solver to cores fails, the cores taken
\* are back in available_cores, the spawned pipeline is killed, and the slot
\* id has no record in the process map and is not in the active set.
C34_FailedPinLeavesNothing ==
    [][\A p \in Pids :
          PinFails(p) =>
             /\ available_cores' = available_cores
             /\ procs'[p].os \notin {"running", "stopped"}
             /\ procs[p].id \notin DOMAIN solver_processes'
             /\ procs[p].id \notin current_solvers']_vars

(************************* cancelled compilations ***************************)
\* C35: a compilation whose token has been cancelled, by stop_many or through
\* the manager's parent token, is not left in the compilations map: once its
\* task has ended as cancelled the map holds no Started entry for it.
C35_CancelledIsNotStarted ==
    \A name \in DOMAIN compilations :
        compilations[name].st = "Started"
            => ~(/\ CompCancelled(<<name, compilations[name].gen>>)
                 /\ compTasks[<<name, compilations[name].gen>>].st = "cancelled")

(*********************** live solvers and the bound seen ********************)
\* C36: once apply has returned, no live solver of the process map has a
\* per-solver best that is strictly worse than prev_best.
C36_NoLiveSolverBehindPrevBest ==
    prev_objective # None =>
        \A id \in DOMAIN solver_processes :
            procs[solver_processes[id].pid].os \in {"running", "stopped"}
                => ~is_better(objective_type, solver_processes[id].best_objective,
                              prev_objective[1])

(************************** distinct ids in Step B **************************)
\* C37: the schedule Step B produces for one portfolio never holds the same
\* id twice, also when the portfolio holds equal SolverInfo entries (a slot is
\* matched at most once), and every id of it is below next_id.
C37_StepBIdsDistinct ==
    [][\A pf \in Portfolios :
         \A ro \in SeqOfSet(DOMAIN running_solvers),
            su \in SeqOfSet(DOMAIN suspended_solvers) :
               ApplyCall(pf, ro, su) =>
                  \E plan \in {ApplyPlan(pf, ro, su)} :
                     /\ \A i \in DOMAIN plan.schedule, j \in DOMAIN plan.schedule :
                           i # j => plan.schedule[i].id # plan.schedule[j].id
                     /\ \A i \in DOMAIN plan.schedule :
                           plan.schedule[i].id < next_solver_id']_vars

\* a portfolio of two equal entries was applied while one slot of that
\* SolverInfo was already running: the slot kept its id 0 and the second
\* entry got the fresh id 1, whose start task has not begun
C37_Witness ==
    /\ DOMAIN running_solvers = {0, 1}
    /\ running_solvers[0] = running_solvers[1]
    /\ next_solver_id = 2
    /\ 0 \in DOMAIN solver_processes
    /\ \E p \in Pids : procs[p].id = 1 /\ procs[p].phase = "new"

(*************************** running after apply ****************************)
\* how many slots of a map hold info
SlotsOf(f, info) == Cardinality({id \in DOMAIN f : f[id] = info})

\* C38: after apply(portfolio) returns Ok the keys of running are exactly the
\* ids of the schedule produced for the portfolio, so that running holds each
\* SolverInfo as often as the portfolio does, and a slot that was running
\* before, is not in the schedule, is still active and was not restarted by
\* Step A is kept, with its SolverInfo, in suspended.
C38_RunningIsPortfolio ==
    [][\A pf \in Portfolios :
         \A ro \in SeqOfSet(DOMAIN running_solvers),
            su \in SeqOfSet(DOMAIN suspended_solvers) :
               ApplyCall(pf, ro, su) =>
                  \E plan \in {ApplyPlan(pf, ro, su)} :
                     plan.ok =>
                        /\ DOMAIN running_solvers' = Ids(plan.schedule)
                        /\ \A info \in Infos :
                              SlotsOf(running_solvers', info) = CountIn(pf, info)
                        /\ \A id \in DOMAIN running_solvers :
                              (/\ id \notin Ids(plan.schedule)
                               /\ id \in current_solvers
                               /\ id \notin to_restart)
                                 => /\ id \in DOMAIN suspended_solvers'
                                    /\ suspended_solvers'[id] = running_solvers[id]]_vars

\* slot 0, running before, was left out of the last portfolio: it is kept in
\* suspended with its process stopped while running holds the one slot of the
\* schedule
C38_Witness ==
    /\ DOMAIN running_solvers = {1}
    /\ DOMAIN suspended_solvers = {0}
    /\ 0 \in DOMAIN solver_processes
    /\ procs[solver_processes[0].pid].os = "stopped"

\* C38 as stated: every slot that was running before and is not in the
\* schedule is in suspended after an apply that returns Ok
C38_UndesiredAlwaysSuspended ==
    [][\A pf \in Portfolios :
         \A ro \in SeqOfSet(DOMAIN running_solvers),
            su \in SeqOfSet(DOMAIN suspended_solvers) :
               ApplyCall(pf, ro, su) =>
                  \E plan \in {ApplyPlan(pf, ro, su)} :
                     plan.ok =>
                        /\ DOMAIN running_solvers' = Ids(plan.schedule)
                        /\ \A id \in DOMAIN running_solvers :
                              id \notin Ids(plan.schedule)
                                 => id \in DOMAIN suspended_solvers']_vars

(************************** waiters of compilations *************************)
\* C39: a start task waiting in wait_for on a started compilation eventually
\* returns from it: with the compilation's result once the compilation has
\* ended, with a cancelled error when the compilation was stopped or
\* cancelled, or because its own token was cancelled; no waiter stays blocked.
C39_WaitForReturns ==
    /\ \A p \in 1 .. MaxProcs :
          (p \in Pids /\ procs[p].phase = "wait")
             ~> (p \in Pids /\ procs[p].phase # "wait")
    /\ [][\A p \in Pids :
             (procs[p].phase = "wait" /\ procs'[p].phase # "wait") =>
                \/ TokenCancelled(p) /\ procs'[p].phase = "done"
                \/ /\ compTasks[Awaited(p)].st = "ok"
                   /\ procs'[p].phase \in {"live", "insert"}
                \/ /\ compTasks[Awaited(p)].st = "err"
                   /\ procs'[p].phase = "done"
                \/ /\ compTasks[Awaited(p)].st = "cancelled"
                   /\ CompCancelled(Awaited(p))
                   /\ procs'[p].phase = "done"]_vars

\* the only start task of a name waited for a compilation that an apply
\* stopped; the compilation ended cancelled and the task has returned without
\* spawning a solver
C39_Witness ==
    \E p \in Pids, k \in DOMAIN compTasks :
        /\ k[1] = procs[p].name
        /\ \A q \in Pids : procs[q].name = procs[p].name => q = p
        /\ compTasks[k] = [st |-> "cancelled", stopped |-> TRUE]
        /\ procs[p].phase = "done" /\ procs[p].os = "none"
        /\ ~program_cancelled

(************************** the flatfile of a start *************************)
\* the bound-injected flatfile of a start: the original with the constraint
\* objective <= B (Minimize) or B <= objective (Maximize) immediately before
\* its solve item
BoundInjected(r) ==
    insert_objective_before_solve(r.original, objective_type, r.objective[1], "ok")

\* C40: a solver start uses the bound-injected flatfile exactly when the
\* global best it read is set and the objective type is not Satisfy, and the
\* compilation's original flatfile in every other case.
C40_InjectedIffBound ==
    \A i \in DOMAIN flat :
        IF flat[i].objective # None /\ objective_type # "Satisfy"
        THEN /\ BoundInjected(flat[i]).ok
             /\ flat[i].final = BoundInjected(flat[i]).content
        ELSE flat[i].final = flat[i].original

====
